---- MODULE Spec2Model ----
(***************************************************************************)
(* Change queue and pattern text store of strudel-mcp.                     *)
(*                                                                         *)
(* Two processes share the file patterns.js:                               *)
(*   - strudel_server.py: the change queue.  All of its code runs on one   *)
(*     asyncio event loop, so queue handlers and callbacks interleave only *)
(*     at an await; the file system calls they make are still separate     *)
(*     system calls that other processes can see and interleave with.      *)
(*   - strudel_mcp.py (a subprocess): the edit write path                  *)
(*     _write_pattern_file (backup, temporary file, rename).               *)
(* A text is a sequence of characters.                                     *)
(***************************************************************************)
EXTENDS Integers, Sequences, FiniteSets, TLC

\* ------------------------------------------------------------- bounds
MaxChanges == 2     \* enqueue calls in a run
MaxEdits == 1       \* strudel_edit_pattern calls in a run
MaxTime == 1        \* the clock runs 0..MaxTime (seconds)
MaxDrumLen == 3     \* the longest kick or snare array tried

Ids == 1..MaxChanges
\* The content of a file that does not exist, and of a local not yet set.
NoFile == <<"(no file)">>

\* The texts the requests of a run are drawn from.
InitialText == <<"a", "b">>
Requests == {[find |-> <<"a">>, replace |-> <<"b">>],
             [find |-> <<"b">>, replace |-> <<"c">>],
             [find |-> <<"z">>, replace |-> <<"c">>]}
DelaySet == {0, 1}
EditTexts == {<<"a", "z">>}

\* ------------------------------------------------------------- state
VARIABLES
    file,               \* content of patterns.js as a reader sees it now
    backup,             \* content of patterns.js.bak, or NoFile
    tmp,                \* content of patterns.js.tmp, or NoFile
    change_queue,       \* strudel_server.change_queue: the pending list
    change_id_counter,  \* strudel_server.change_id_counter
    jobs,               \* ids with a job in the APScheduler job store
    now,                \* the clock, in seconds
    pc,                 \* position of process_queued_change(id)
    ready,              \* ids of the tasks process_queued_change(id) that
                        \* have not run yet, in the order they were created
    taskArgs,           \* per id: the change dict its job or task was created
                        \* with, and the delay_seconds of the request
    readContent,        \* `content` read by execute_find_replace, per id
    result,             \* result["method"] of execute_find_replace, per id
    fallbackCalls,      \* times the fallback agent call was dispatched, per id
    fdStale,            \* the open write descriptor refers to a replaced file
    editPc,             \* position of _write_pattern_file in strudel_mcp
    editContent,        \* js_content being written by the edit
    editCalls,          \* calls of _write_pattern_file so far
    lastCancel,         \* the response of cancel_change when the last step was
                        \* one, "none" otherwise
    editParams,         \* params of the strudel_edit_pattern call that is in
                        \* its write path, or of the last one that was
    lastCall            \* the last call of the strudel_mcp process that has
                        \* returned: the tool or function, its argument and
                        \* what it returned

vars == <<file, backup, tmp, change_queue, change_id_counter, jobs, now, pc,
          ready,
          taskArgs, readContent, result, fallbackCalls, fdStale,
          editPc, editContent, editCalls, lastCancel, editParams, lastCall>>

serverVars == <<change_queue, change_id_counter, jobs, pc, ready, taskArgs,
                readContent, result, fallbackCalls>>
editVars == <<backup, tmp, editPc, editContent, editCalls, editParams,
              lastCall>>

\* ------------------------------------------------------------- text
\* find occurs in s at position i
IsPrefixAt(f, s, i) ==
    /\ i + Len(f) - 1 <= Len(s)
    /\ \A k \in 1..Len(f) : s[i + k - 1] = f[k]

\* A faulty search: only a match at the start of the text counts.
FindInAtStart(f, s) == IsPrefixAt(f, s, 1)

\* Python: find in content
FindIn(f, s) == \E i \in 1..(Len(s) + 1) : IsPrefixAt(f, s, i)

RECURSIVE ReplaceFrom(_, _, _, _)
ReplaceFrom(s, f, r, i) ==
    IF i > Len(s) THEN <<>>
    ELSE IF IsPrefixAt(f, s, i) THEN r \o ReplaceFrom(s, f, r, i + Len(f))
    ELSE <<s[i]>> \o ReplaceFrom(s, f, r, i + 1)

RECURSIVE Interleave(_, _, _)
Interleave(s, r, i) ==
    IF i > Len(s) THEN r ELSE r \o <<s[i]>> \o Interleave(s, r, i + 1)

\* A faulty replace: content.replace(find, replace, 1).
StrReplaceOnce(s, f, r) ==
    LET starts == {i \in 1..Len(s) : IsPrefixAt(f, s, i)}
    IN IF starts = {} THEN s
       ELSE LET i == CHOOSE k \in starts : \A j \in starts : k <= j
            IN SubSeq(s, 1, i - 1) \o r \o SubSeq(s, i + Len(f), Len(s))

\* Python: content.replace(find, replace): every non-overlapping occurrence,
\* left to right; an empty find matches before every character and at the end.
StrReplace(s, f, r) ==
    IF f = <<>> THEN Interleave(s, r, 1) ELSE ReplaceFrom(s, f, r, 1)

\* ------------------------------------------------------------- notes
\* A string of the strudel_mcp process is a sequence of characters, as a text
\* of the store is.  The alphabet has the ASCII digits only (\d also matches
\* the digits of other scripts, which no VALID_OCTAVES entry equals).
Letters == {"A", "B", "C", "D", "E", "F", "G"}
Accidentals == {"#", "b"}
Digits == {"0", "1", "2", "3", "4", "5", "6", "7", "8", "9"}

\* A faulty list: the flat spellings are missing.
VALID_NOTE_NAMES_Sharps ==
    {<<"C">>, <<"C", "#">>, <<"D">>, <<"D", "#">>, <<"E">>, <<"F">>,
     <<"F", "#">>, <<"G">>, <<"G", "#">>, <<"A">>, <<"A", "#">>, <<"B">>}

VALID_NOTE_NAMES ==
    {<<"C">>, <<"C", "#">>, <<"D", "b">>, <<"D">>, <<"D", "#">>,
     <<"E", "b">>, <<"E">>, <<"F">>, <<"F", "#">>, <<"G", "b">>, <<"G">>,
     <<"G", "#">>, <<"A", "b">>, <<"A">>, <<"A", "#">>, <<"B", "b">>,
     <<"B">>}

VALID_OCTAVES == {"0", "1", "2", "3", "4", "5", "6", "7", "8"}

\* [A-G][#b]?\d
NoteShaped(t) ==
    \/ Len(t) = 2 /\ t[1] \in Letters /\ t[2] \in Digits
    \/ Len(t) = 3 /\ t[1] \in Letters /\ t[2] \in Accidentals
                  /\ t[3] \in Digits

\* re.match(r'^([A-G][#b]?)(\d)$', note): the part of note the groups cover,
\* or <<>> when there is no match.  `$` matches at the end of the string and
\* also just before a newline that ends it.
NoteMatch(note) ==
    IF NoteShaped(note) THEN note
    ELSE IF Len(note) > 0 /\ note[Len(note)] = "\n"
            /\ NoteShaped(SubSeq(note, 1, Len(note) - 1))
         THEN SubSeq(note, 1, Len(note) - 1)
         ELSE <<>>

\* _validate_note_name(note): (is_valid, error_message); the message is kept
\* as the kind of the error.
ValidateNoteName(note) ==
    IF note = <<"~">> THEN [ok |-> TRUE, error |-> "none"]
    ELSE LET match == NoteMatch(note)
             note_name == SubSeq(match, 1, Len(match) - 1)
             octave == match[Len(match)]
         IN IF match = <<>> THEN [ok |-> FALSE, error |-> "format"]
            ELSE IF note_name \notin VALID_NOTE_NAMES
                 THEN [ok |-> FALSE, error |-> "name"]
            ELSE IF octave \notin VALID_OCTAVES
                 THEN [ok |-> FALSE, error |-> "octave"]
            ELSE [ok |-> TRUE, error |-> "none"]

\* ------------------------------------------------------------- the schema
\* A pattern is a record as json gives it: bpm and filter are integers, delay
\* is a number with one decimal kept as its count of tenths (0.5 is 5), a note
\* and an enum value are strings, drum hits are integers.  A key of the top
\* level may be missing; a section that is present has all its keys.
TimeIntervalValues ==
    {<<"1", "m">>, <<"2", "m">>, <<"4", "m">>, <<"8", "m">>, <<"8", "n">>}
WaveformValues ==
    {<<"s", "i", "n", "e">>,
     <<"t", "r", "i", "a", "n", "g", "l", "e">>,
     <<"s", "a", "w", "t", "o", "o", "t", "h">>,
     <<"s", "q", "u", "a", "r", "e">>}

\* A faulty range: 20 itself is refused.
BpmInRangeOpen(bpm) == bpm > 20 /\ bpm <= 120

\* bpm: int = Field(..., ge=20, le=120)
BpmInRange(bpm) == bpm >= 20 /\ bpm <= 120

\* A faulty validator: only the first hit is looked at.
ValidateDrumPatternFirst(v) == v[1] \in {0, 1}

\* validate_drum_pattern: all(hit in [0, 1] for hit in v)
ValidateDrumPattern(v) == \A i \in 1..Len(v) : v[i] \in {0, 1}

\* The fields of PatternData and of its sections, in the order pydantic
\* validates them and lists their errors.
PatternDataFields ==
    <<"bpm", "chords", "chords.progression", "chords.interval",
      "chords.duration", "chords.filter", "melody", "melody.notes",
      "melody.interval", "melody.duration", "melody.waveform", "melody.delay",
      "drums.kick", "drums.snare", "drums.interval">>

\* The field f of pattern has an error: it is required and missing, or its
\* value breaks a constraint of its Field or its field_validator.
FieldFails(pattern, f) ==
    LET has(k) == k \in DOMAIN pattern
    IN CASE f = "bpm" -> ~has("bpm") \/ ~BpmInRange(pattern.bpm)
         [] f = "chords" -> ~has("chords")
         [] f = "chords.progression" ->
                has("chords") /\ Len(pattern.chords.progression) < 1
         [] f = "chords.interval" ->
                has("chords") /\ pattern.chords.interval \notin TimeIntervalValues
         [] f = "chords.duration" ->
                has("chords") /\ pattern.chords.duration \notin TimeIntervalValues
         [] f = "chords.filter" ->
                has("chords") /\ (pattern.chords.filter < 100
                                    \/ pattern.chords.filter > 2000)
         [] f = "melody" -> ~has("melody")
         [] f = "melody.notes" ->
                has("melody") /\ Len(pattern.melody.notes) < 1
         [] f = "melody.interval" ->
                has("melody") /\ pattern.melody.interval \notin TimeIntervalValues
         [] f = "melody.duration" ->
                has("melody") /\ pattern.melody.duration \notin TimeIntervalValues
         [] f = "melody.waveform" ->
                has("melody") /\ pattern.melody.waveform \notin WaveformValues
         [] f = "melody.delay" ->
                has("melody") /\ (pattern.melody.delay < 0
                                    \/ pattern.melody.delay > 10)
         [] f = "drums.kick" ->
                has("drums") /\ (Len(pattern.drums.kick) < 1
                                   \/ ~ValidateDrumPattern(pattern.drums.kick))
         [] f = "drums.snare" ->
                has("drums") /\ (Len(pattern.drums.snare) < 1
                                   \/ ~ValidateDrumPattern(pattern.drums.snare))
         [] f = "drums.interval" ->
                has("drums") /\ pattern.drums.interval \notin TimeIntervalValues

\* PatternData(**pattern): the fields the ValidationError lists.  pydantic
\* validates every field and collects every error before it raises.
PatternDataErrors(pattern) ==
    SelectSeq(PatternDataFields, LAMBDA f : FieldFails(pattern, f))

\* The notes of the chords, chord after chord.
RECURSIVE ChordNotes(_)
ChordNotes(progression) ==
    IF progression = <<>> THEN <<>>
    ELSE Head(progression) \o ChordNotes(Tail(progression))

\* The index of the first note of notes that _validate_note_name refuses, or 0.
FirstInvalidNote(notes) ==
    LET bad == {i \in 1..Len(notes) : ~ValidateNoteName(notes[i]).ok}
    IN IF bad = {} THEN 0 ELSE CHOOSE i \in bad : \A j \in bad : i <= j

\* _validate_pattern_structure(pattern): (is_valid, error_message).  The
\* message is kept as the stage that failed, the fields it names and, for a
\* note, the note and the kind of its error.
ValidatePatternStructure(pattern) ==
    LET errors == PatternDataErrors(pattern)
    IN IF errors # <<>>
       THEN [ok |-> FALSE, stage |-> "schema", fields |-> errors,
             note |-> <<>>, error |-> "none"]
       ELSE LET chord_notes == ChordNotes(pattern.chords.progression)
                i == FirstInvalidNote(chord_notes)
                j == FirstInvalidNote(pattern.melody.notes)
            IN IF i # 0
               THEN [ok |-> FALSE, stage |-> "chord",
                     fields |-> <<"chords.progression">>,
                     note |-> chord_notes[i],
                     error |-> ValidateNoteName(chord_notes[i]).error]
               ELSE IF j # 0
               THEN [ok |-> FALSE, stage |-> "melody",
                     fields |-> <<"melody.notes">>,
                     note |-> pattern.melody.notes[j],
                     error |-> ValidateNoteName(pattern.melody.notes[j]).error]
               ELSE [ok |-> TRUE, stage |-> "ok", fields |-> <<>>,
                     note |-> <<>>, error |-> "none"]

\* ------------------------------------------------------------- the serializer
\* The literal pieces of the lines _format_pattern_js builds.
JsHeaderTitle ==
    <<" ", "S", "T", "R", "U", "D", "E", "L", "-", "M", "C", "P", " ", "-",
      " ", "A", "m", "b", "i", "e", "n", "t", " ", "P", "a", "t", "t", "e",
      "r", "n", " ", "(", "T", "o", "n", "e", ".", "j", "s", " ", "f", "o",
      "r", "m", "a", "t", ")">>
JsComment == <<"/", "/", " ">>
JsTimestamp ==
    <<"/", "/", " ", "T", "I", "M", "E", "S", "T", "A", "M", "P", ":", " ">>
JsOpen == <<"(", "{">>
JsBpm == <<" ", " ", " ", " ", "b", "p", "m", ":", " ">>
JsIndent == <<" ", " ", " ", " ">>
JsChordsOpen ==
    <<" ", " ", " ", " ", "c", "h", "o", "r", "d", "s", ":", " ", "{">>
JsProgressionOpen ==
    <<" ", " ", " ", " ", " ", " ", " ", " ", "p", "r", "o", "g", "r", "e",
      "s", "s", "i", "o", "n", ":", " ", "[">>
JsChordIndent ==
    <<" ", " ", " ", " ", " ", " ", " ", " ", " ", " ", " ", " ">>
JsProgressionClose == <<" ", " ", " ", " ", " ", " ", " ", " ", "]", ",">>
JsInterval ==
    <<" ", " ", " ", " ", " ", " ", " ", " ", "i", "n", "t", "e", "r", "v",
      "a", "l", ":", " ">>
JsDuration ==
    <<" ", " ", " ", " ", " ", " ", " ", " ", "d", "u", "r", "a", "t", "i",
      "o", "n", ":", " ">>
JsFilter ==
    <<" ", " ", " ", " ", " ", " ", " ", " ", "f", "i", "l", "t", "e", "r",
      ":", " ">>
JsSectionCloseComma == <<" ", " ", " ", " ", "}", ",">>
JsMelodyOpen ==
    <<" ", " ", " ", " ", "m", "e", "l", "o", "d", "y", ":", " ", "{">>
JsNotes ==
    <<" ", " ", " ", " ", " ", " ", " ", " ", "n", "o", "t", "e", "s", ":",
      " ">>
JsWaveform ==
    <<" ", " ", " ", " ", " ", " ", " ", " ", "w", "a", "v", "e", "f", "o",
      "r", "m", ":", " ">>
JsDelay ==
    <<" ", " ", " ", " ", " ", " ", " ", " ", "d", "e", "l", "a", "y", ":",
      " ">>
JsSectionClose == <<" ", " ", " ", " ", "}">>
JsDrumsOpen == <<" ", " ", " ", " ", "d", "r", "u", "m", "s", ":", " ", "{">>
JsKick ==
    <<" ", " ", " ", " ", " ", " ", " ", " ", "k", "i", "c", "k", ":", " ">>
JsSnare ==
    <<" ", " ", " ", " ", " ", " ", " ", " ", "s", "n", "a", "r", "e", ":",
      " ">>
JsClose == <<"}", ")">>
\* The first line of the file: "// ", four characters outside ASCII (each is
\* written here as the name of its code point), and the title.
JsHeader ==
    <<"/", "/", " ", "U+00F0", "U+0178", "U+017D", "U+00B5">> \o JsHeaderTitle

DigitChars == <<"0", "1", "2", "3", "4", "5", "6", "7", "8", "9">>

\* str(n) for an integer n.
RECURSIVE NatChars(_)
NatChars(n) ==
    IF n < 10 THEN <<DigitChars[n + 1]>>
    ELSE NatChars(n \div 10) \o <<DigitChars[(n % 10) + 1]>>
IntChars(n) == IF n < 0 THEN <<"-">> \o NatChars(-n) ELSE NatChars(n)

\* str(x) for the float x of t tenths: 5 gives 0.5, 10 gives 1.0.
TenthsChars(t) ==
    IF t < 0
    THEN <<"-">> \o NatChars((-t) \div 10) \o <<".", DigitChars[((-t) % 10) + 1]>>
    ELSE NatChars(t \div 10) \o <<".", DigitChars[(t % 10) + 1]>>

\* sep.join(parts)
RECURSIVE Join(_, _)
Join(parts, sep) ==
    IF parts = <<>> THEN <<>>
    ELSE IF Len(parts) = 1 THEN parts[1]
    ELSE parts[1] \o sep \o Join(Tail(parts), sep)

\* f"'{s}'"
Quoted(s) == <<"'">> \o s \o <<"'">>

\* "[" + ", ".join(f"'{note}'" for note in notes) + "]"
NoteList(notes) ==
    <<"[">> \o Join([i \in 1..Len(notes) |-> Quoted(notes[i])], <<",", " ">>)
            \o <<"]">>

\* "[" + ", ".join(str(hit) for hit in hits) + "]"
HitList(hits) ==
    <<"[">> \o Join([i \in 1..Len(hits) |-> IntChars(hits[i])], <<",", " ">>)
            \o <<"]">>

\* _format_pattern_js(pattern, description), with the text that
\* datetime.now().strftime gave as timestamp.  The key drums is rendered when
\* pattern has it.
FormatPatternJs(pattern, description, timestamp) ==
    LET chords == pattern.chords
        melody == pattern.melody
        head ==
            <<JsHeader,
              JsComment \o description,
              JsTimestamp \o timestamp,
              <<>>,
              JsOpen,
              JsBpm \o IntChars(pattern.bpm) \o <<",">>,
              JsIndent,
              JsChordsOpen,
              JsProgressionOpen>>
        chord_lines ==
            [i \in 1..Len(chords.progression) |->
                JsChordIndent \o NoteList(chords.progression[i]) \o <<",">>]
        middle ==
            <<JsProgressionClose,
              JsInterval \o Quoted(chords.interval) \o <<",">>,
              JsDuration \o Quoted(chords.duration) \o <<",">>,
              JsFilter \o IntChars(chords.filter),
              JsSectionCloseComma,
              JsIndent,
              JsMelodyOpen,
              JsNotes \o NoteList(melody.notes) \o <<",">>,
              JsInterval \o Quoted(melody.interval) \o <<",">>,
              JsDuration \o Quoted(melody.duration) \o <<",">>,
              JsWaveform \o Quoted(melody.waveform) \o <<",">>,
              JsDelay \o TenthsChars(melody.delay),
              JsSectionClose>>
        drum_lines ==
            IF "drums" \in DOMAIN pattern
            THEN <<<<",">>,
                   JsIndent,
                   JsDrumsOpen,
                   JsKick \o HitList(pattern.drums.kick) \o <<",">>,
                   JsSnare \o HitList(pattern.drums.snare) \o <<",">>,
                   JsInterval \o Quoted(pattern.drums.interval),
                   JsSectionClose>>
            ELSE <<>>
        lines == head \o chord_lines \o middle \o drum_lines
                      \o <<JsClose, <<>>>>
    IN Join(lines, <<"\n">>)

\* ------------------------------------------------------------- the advisor
Moods == {"darker", "brighter", "spacious", "dense", "minimal"}

\* A faulty max: the floor is not applied.
MaxUnclamped(a, b) == b

\* max(a, b) and min(a, b)
Max(a, b) == IF a >= b THEN a ELSE b
Min(a, b) == IF a <= b THEN a ELSE b

\* A suggestion that proposes a new value for bpm or filter, and one that is
\* fixed text.
Propose(about, from, to) == [about |-> about, from |-> from, to |-> to]
Advice == [about |-> "text", from |-> 0, to |-> 0]

\* _suggest_for_mood(pattern, mood): the dict it returns; every suggestion is
\* kept as the value it proposes, its fixed wording is left out.
SuggestForMood(pattern, mood) ==
    LET bpm == pattern.bpm
        filter == pattern.chords.filter
        changes ==
            CASE mood = "darker" ->
                   <<Propose("bpm", bpm, Max(20, bpm - 10)),
                     Propose("filter", filter, Max(100, filter - 200)),
                     Advice, Advice, Advice>>
              [] mood = "brighter" ->
                   <<Propose("filter", filter, Min(2000, filter + 300)),
                     Advice, Advice, Advice, Advice>>
              [] mood = "spacious" ->
                   <<Propose("bpm", bpm, Max(20, bpm - 10)),
                     Advice, Advice, Advice, Advice, Advice>>
              [] mood = "dense" ->
                   <<Propose("bpm", bpm, Min(120, bpm + 15)),
                     Advice, Advice, Advice, Advice, Advice>>
              [] mood = "minimal" ->
                   <<Propose("bpm", bpm, Max(20, bpm - 15)),
                     Advice, Advice, Advice, Advice, Advice, Advice>>
              [] OTHER -> <<>>
    IN [mood |-> mood, current_bpm |-> bpm, current_filter |-> filter,
        changes |-> changes]

\* ------------------------------------------------------------- the parser
\* The characters of the classes the regular expressions of _parse_pattern
\* name, among the characters the texts of the model are written with.
Whitespace == {" ", "\n", "\t", "\r"}
WordChars ==
    {"a", "b", "c", "d", "e", "f", "g", "h", "i", "j", "k", "l", "m", "n",
     "o", "p", "q", "r", "s", "t", "u", "v", "w", "x", "y", "z",
     "A", "B", "C", "D", "E", "F", "G", "H", "I", "J", "K", "L", "M", "N",
     "O", "P", "Q", "R", "S", "T", "U", "V", "W", "X", "Y", "Z", "_"}
    \cup Digits

\* The character of s at i, or the empty string past its ends.
At(s, i) == IF i >= 1 /\ i <= Len(s) THEN s[i] ELSE ""

\* The first position from i on that holds a character outside cls, or
\* Len(s) + 1; and the last position up to i that does, or 0.
RECURSIVE SkipClass(_, _, _)
SkipClass(s, i, cls) ==
    IF i > Len(s) \/ s[i] \notin cls THEN i ELSE SkipClass(s, i + 1, cls)
RECURSIVE SkipClassBack(_, _, _)
SkipClassBack(s, i, cls) ==
    IF i < 1 \/ s[i] \notin cls THEN i ELSE SkipClassBack(s, i - 1, cls)
SkipWs(s, i) == SkipClass(s, i, Whitespace)
SkipWsBack(s, i) == SkipClassBack(s, i, Whitespace)

\* The pieces lo..hi of a sequence of texts, one after the other.
RECURSIVE Gather(_, _, _)
Gather(pieces, lo, hi) ==
    IF lo > hi THEN <<>>
    ELSE IF lo = hi THEN pieces[lo]
    ELSE LET mid == (lo + hi) \div 2
         IN Gather(pieces, lo, mid) \o Gather(pieces, mid + 1, hi)

\* The position at which the line of position i begins.
RECURSIVE LineStart(_, _)
LineStart(s, i) ==
    IF i <= 1 \/ s[i - 1] = "\n" THEN i ELSE LineStart(s, i - 1)

\* re.sub(r'//.*$', '', content, flags=re.MULTILINE): a comment runs from the
\* first // of a line to the end of the line; the newline stays.
RemoveComments(s) ==
    LET in_comment(i) ==
            /\ s[i] # "\n"
            /\ \E k \in LineStart(s, i)..i : s[k] = "/" /\ At(s, k + 1) = "/"
        piece(i) == IF in_comment(i) THEN <<>> ELSE <<s[i]>>
    IN Gather([i \in 1..Len(s) |-> piece(i)], 1, Len(s))

\* s.strip()
Strip(s) == SubSeq(s, SkipWs(s, 1), SkipWsBack(s, Len(s)))

\* re.search(r'\(\s*\{.*\}\s*\)', s, re.DOTALL): the first and last position
\* of the match, or <<0, 0>>.  The match begins at the first "(" that
\* whitespace and "{" follow and that has a "}", whitespace and ")" later on;
\* .* is greedy, so it ends at the last such ")".
SearchObject(s) ==
    LET closers == {e \in 1..Len(s) :
                       s[e] = ")" /\ At(s, SkipWsBack(s, e - 1)) = "}"}
        ends(i) == {e \in closers : SkipWsBack(s, e - 1) > SkipWs(s, i + 1)}
        starts == {i \in 1..Len(s) :
                      /\ s[i] = "("
                      /\ At(s, SkipWs(s, i + 1)) = "{"
                      /\ ends(i) # {}}
    IN IF starts = {} THEN <<0, 0>>
       ELSE LET i == CHOOSE a \in starts : \A b \in starts : a <= b
            IN <<i, CHOOSE e \in ends(i) : \A g \in ends(i) : g <= e>>

\* obj_str.replace("'", '"')
Requote(s) == [i \in 1..Len(s) |-> IF s[i] = "'" THEN "\"" ELSE s[i]]

\* re.sub(r'(\w+)(?=\s*:)', r'"\1"', s): a run of word characters that
\* whitespace and a colon follow is put in double quotes.  A run that no
\* colon follows matches at none of its positions.
QuoteKeys(s) ==
    LET word(i) == At(s, i) \in WordChars
        key(i) == At(s, SkipWs(s, SkipClass(s, i, WordChars))) = ":"
        before(i) == IF ~word(i - 1) /\ key(i) THEN <<"\"">> ELSE <<>>
        after(i) == IF ~word(i + 1) /\ key(i) THEN <<"\"">> ELSE <<>>
        piece(i) == IF word(i) THEN before(i) \o <<s[i]>> \o after(i)
                    ELSE <<s[i]>>
    IN Gather([i \in 1..Len(s) |-> piece(i)], 1, Len(s))

\* re.sub(r',\s*([\]}])', r'\1', s): a comma that whitespace and a closing
\* bracket follow is dropped with that whitespace.
DropTrailingCommas(s) ==
    LET closing(i) == At(s, SkipWs(s, i)) \in {"]", "}"}
        dropped(i) ==
            \/ s[i] = "," /\ closing(i + 1)
            \/ /\ s[i] \in Whitespace
               /\ At(s, SkipWsBack(s, i)) = ","
               /\ closing(i)
        piece(i) == IF dropped(i) THEN <<>> ELSE <<s[i]>>
    IN Gather([i \in 1..Len(s) |-> piece(i)], 1, Len(s))

\* The text json.loads is given: the steps of _parse_pattern before it, or
\* <<>> when no object literal is found (json.loads is then not called).
JsonText(content) ==
    LET obj_str(clean_content, match) ==
            SubSeq(clean_content, match[1] + 1, match[2] - 1)
        json_str(clean_content, match) ==
            IF match = <<0, 0>> THEN <<>>
            ELSE DropTrailingCommas(
                     QuoteKeys(Requote(obj_str(clean_content, match))))
        search(clean_content) ==
            json_str(clean_content, SearchObject(clean_content))
    IN search(Strip(RemoveComments(content)))

\* json.loads(s).  A parse gives [ok, kind, val, next]: the kind of the value
\* read ("int", "float", "string", "array", "object", "literal"), the value,
\* and the position after it.  The texts of the model write no exponent and
\* no \u escape; neither is read here.
ParseFail == [ok |-> FALSE, kind |-> "none", val |-> <<>>, next |-> 0]
Parsed(kind, val, next) ==
    [ok |-> TRUE, kind |-> kind, val |-> val, next |-> next]

\* The characters json refuses inside a string.
ControlChars == {"\n", "\t", "\r"}
Escapes == {"\"", "\\", "/", "b", "f", "n", "r", "t"}

\* The position of the quote that closes the string whose characters begin
\* at i, or 0 when the string is not one of json.
RECURSIVE StringEnd(_, _)
StringEnd(s, i) ==
    IF i > Len(s) \/ s[i] \in ControlChars THEN 0
    ELSE IF s[i] = "\"" THEN i
    ELSE IF s[i] = "\\"
         THEN IF At(s, i + 1) \in Escapes THEN StringEnd(s, i + 2) ELSE 0
    ELSE StringEnd(s, i + 1)

EscapeChar(c) ==
    CASE c = "n" -> "\n" [] c = "t" -> "\t" [] c = "r" -> "\r"
      [] c = "b" -> "U+0008" [] c = "f" -> "U+000C" [] OTHER -> c

RECURSIVE Unescape(_, _)
Unescape(t, k) ==
    IF k > Len(t) THEN <<>>
    ELSE IF t[k] = "\\" THEN <<EscapeChar(t[k + 1])>> \o Unescape(t, k + 2)
    ELSE <<t[k]>> \o Unescape(t, k + 1)

\* s[i] is the opening quote.
ParseString(s, i) ==
    LET end == StringEnd(s, i + 1)
    IN IF end = 0 THEN ParseFail
       ELSE Parsed("string", Unescape(SubSeq(s, i + 1, end - 1), 1), end + 1)

\* int(chars) for a run of digits.
DigitValue(c) == CHOOSE d \in 0..9 : DigitChars[d + 1] = c
RECURSIVE CharsNat(_)
CharsNat(chars) ==
    IF chars = <<>> THEN 0
    ELSE 10 * CharsNat(SubSeq(chars, 1, Len(chars) - 1))
         + DigitValue(chars[Len(chars)])

\* -?(0|[1-9]\d*)(\.\d+)? at i.  An integer literal gives the integer; one
\* with a fraction gives its sign, whole part and fraction digits.
ParseNumber(s, i) ==
    LET neg == At(s, i) = "-"
        first == IF neg THEN i + 1 ELSE i
        whole_end == IF At(s, first) = "0" THEN first + 1
                     ELSE SkipClass(s, first, Digits)
        whole == CharsNat(SubSeq(s, first, whole_end - 1))
        has_frac == At(s, whole_end) = "." /\ At(s, whole_end + 1) \in Digits
        frac_end == SkipClass(s, whole_end + 1, Digits)
    IN IF whole_end = first THEN ParseFail
       ELSE IF has_frac
            THEN Parsed("float",
                        [neg |-> neg, whole |-> whole,
                         frac |-> SubSeq(s, whole_end + 1, frac_end - 1)],
                        frac_end)
       ELSE Parsed("int", IF neg THEN -whole ELSE whole, whole_end)

Literals ==
    {<<"t", "r", "u", "e">>, <<"f", "a", "l", "s", "e">>,
     <<"n", "u", "l", "l">>}

ParseLiteral(s, i) ==
    IF \E l \in Literals : IsPrefixAt(l, s, i)
    THEN LET l == CHOOSE l \in Literals : IsPrefixAt(l, s, i)
         IN Parsed("literal", [literal |-> l], i + Len(l))
    ELSE ParseFail

\* The names of the keys the schema knows, as the text spells them.
KeyChars ==
    [bpm |-> <<"b", "p", "m">>,
     chords |-> <<"c", "h", "o", "r", "d", "s">>,
     progression |-> <<"p", "r", "o", "g", "r", "e", "s", "s", "i", "o", "n">>,
     interval |-> <<"i", "n", "t", "e", "r", "v", "a", "l">>,
     duration |-> <<"d", "u", "r", "a", "t", "i", "o", "n">>,
     filter |-> <<"f", "i", "l", "t", "e", "r">>,
     melody |-> <<"m", "e", "l", "o", "d", "y">>,
     notes |-> <<"n", "o", "t", "e", "s">>,
     waveform |-> <<"w", "a", "v", "e", "f", "o", "r", "m">>,
     delay |-> <<"d", "e", "l", "a", "y">>,
     drums |-> <<"d", "r", "u", "m", "s">>,
     kick |-> <<"k", "i", "c", "k">>,
     snare |-> <<"s", "n", "a", "r", "e">>]

\* The key a string of the text spells; every key outside the schema is the
\* key "other".
KeyName(chars) ==
    IF \E k \in DOMAIN KeyChars : KeyChars[k] = chars
    THEN CHOOSE k \in DOMAIN KeyChars : KeyChars[k] = chars
    ELSE "other"

\* The value a member has in a pattern record: a delay is kept as its count
\* of tenths.
MemberValue(member) ==
    IF member.name = "delay" /\ member.kind = "int" THEN 10 * member.val
    ELSE IF member.name = "delay" /\ member.kind = "float"
            /\ Len(member.val.frac) = 1
         THEN LET tenths == 10 * member.val.whole
                            + DigitValue(member.val.frac[1])
              IN IF member.val.neg THEN -tenths ELSE tenths
    ELSE member.val

\* The dict of a sequence of members: the last member of a name gives its
\* value.
ObjectRecord(members) ==
    LET names == {members[n].name : n \in 1..Len(members)}
        last(k) == CHOOSE n \in 1..Len(members) :
                       /\ members[n].name = k
                       /\ \A m \in 1..Len(members) :
                              members[m].name = k => m <= n
    IN [k \in names |-> MemberValue(members[last(k)])]

RECURSIVE ParseValue(_, _)
RECURSIVE ParseElements(_, _)
RECURSIVE ParseMembers(_, _)

\* The elements of an array from i on, up to its "]".
ParseElements(s, i) ==
    LET first == ParseValue(s, i)
        sep == SkipWs(s, first.next)
        rest == ParseElements(s, SkipWs(s, sep + 1))
    IN IF ~first.ok THEN ParseFail
       ELSE IF At(s, sep) = "]" THEN Parsed("array", <<first.val>>, sep + 1)
       ELSE IF At(s, sep) = "," /\ rest.ok
            THEN Parsed("array", <<first.val>> \o rest.val, rest.next)
       ELSE ParseFail

\* The members of an object from i on, up to its "}".
ParseMembers(s, i) ==
    LET key == ParseString(s, i)
        colon == SkipWs(s, key.next)
        value == ParseValue(s, SkipWs(s, colon + 1))
        member == [name |-> KeyName(key.val), kind |-> value.kind,
                   val |-> value.val]
        sep == SkipWs(s, value.next)
        rest == ParseMembers(s, SkipWs(s, sep + 1))
    IN IF At(s, i) # "\"" \/ ~key.ok \/ At(s, colon) # ":" THEN ParseFail
       ELSE IF ~value.ok THEN ParseFail
       ELSE IF At(s, sep) = "}" THEN Parsed("members", <<member>>, sep + 1)
       ELSE IF At(s, sep) = "," /\ rest.ok
            THEN Parsed("members", <<member>> \o rest.val, rest.next)
       ELSE ParseFail

ParseValue(s, i) ==
    LET c == At(s, i)
        inner == SkipWs(s, i + 1)
        object(members) ==
            IF members.ok
            THEN Parsed("object", ObjectRecord(members.val), members.next)
            ELSE ParseFail
    IN IF c = "\"" THEN ParseString(s, i)
       ELSE IF c = "[" THEN IF At(s, inner) = "]"
                            THEN Parsed("array", <<>>, inner + 1)
                            ELSE ParseElements(s, inner)
       ELSE IF c = "{" THEN IF At(s, inner) = "}"
                            THEN Parsed("object", <<>>, inner + 1)
                            ELSE object(ParseMembers(s, inner))
       ELSE IF c = "-" \/ c \in Digits THEN ParseNumber(s, i)
       ELSE ParseLiteral(s, i)

\* json.loads(s): one value, with whitespace around it and nothing else.
JsonLoads(s) ==
    LET whole(value) ==
            IF value.ok /\ SkipWs(s, value.next) = Len(s) + 1 THEN value
            ELSE ParseFail
    IN whole(ParseValue(s, SkipWs(s, 1)))

\* _parse_pattern(content): the pattern, or the ValueError it raises.
ParsePattern(content) ==
    LET pattern(loaded) ==
            IF ~loaded.ok
            THEN [ok |-> FALSE, pattern |-> <<>>, error |-> "json"]
            ELSE [ok |-> TRUE, pattern |-> loaded.val, error |-> "none"]
        loads(json_str) ==
            IF json_str = <<>>
            THEN [ok |-> FALSE, pattern |-> <<>>, error |-> "no_object"]
            ELSE pattern(JsonLoads(json_str))
    IN loads(JsonText(content))

\* ------------------------------------------------------------- the analyzer
\* sum(hits)
RECURSIVE SumHits(_)
SumHits(hits) == IF hits = <<>> THEN 0 ELSE Head(hits) + SumHits(Tail(hits))

\* The quotient num / den of two integers, kept as the pair.
Quotient(num, den) == [num |-> num, den |-> den]

\* The tempo description of _analyze_pattern.
TempoDescription(bpm) ==
    IF bpm < 30 THEN "Very Slow - Extremely Meditative"
    ELSE IF bpm < 40 THEN "Very Slow - Meditative"
    ELSE IF bpm < 60 THEN "Slow - Ambient"
    ELSE IF bpm < 80 THEN "Moderate - Relaxed"
    ELSE IF bpm < 100 THEN "Moderate - Steady"
    ELSE "Faster - Energetic"

\* drum_info of a pattern without drums (None).
NoDrumInfo == <<>>

\* _analyze_pattern(pattern): the dict it returns.  all_notes_used is kept as
\* the set of the notes (its order is left out), and a density as the
\* quotient before it is rounded.
AnalyzePattern(pattern) ==
    LET chord_notes == ChordNotes(pattern.chords.progression)
        melody_notes == pattern.melody.notes
        all_notes ==
            {chord_notes[i] : i \in 1..Len(chord_notes)}
            \cup {melody_notes[i] : i \in 1..Len(melody_notes)}
        sorted_notes == all_notes \ {<<"~">>}
        silence_count ==
            Cardinality({i \in 1..Len(melody_notes) : melody_notes[i] = <<"~">>})
        drum_info ==
            IF "drums" \in DOMAIN pattern
            THEN LET kick_hits == SumHits(pattern.drums.kick)
                     snare_hits == SumHits(pattern.drums.snare)
                     total_steps == Len(pattern.drums.kick)
                 IN [kick_hits |-> kick_hits,
                     snare_hits |-> snare_hits,
                     total_steps |-> total_steps,
                     kick_density |-> Quotient(kick_hits, total_steps),
                     snare_density |-> Quotient(snare_hits, total_steps)]
            ELSE NoDrumInfo
    IN [bpm |-> pattern.bpm,
        tempo_description |-> TempoDescription(pattern.bpm),
        all_notes_used |-> sorted_notes,
        note_count |-> Cardinality(sorted_notes),
        chord_count |-> Len(pattern.chords.progression),
        melody_note_count |-> Len(melody_notes),
        melody_density |->
            IF melody_notes # <<>>
            THEN Quotient(Len(melody_notes) - silence_count, Len(melody_notes))
            ELSE Quotient(0, 1),
        filter_cutoff |-> pattern.chords.filter,
        waveform |-> pattern.melody.waveform,
        delay_amount |-> pattern.melody.delay,
        drums |-> drum_info]

\* ------------------------------------------------------------- queue helpers
QueueIds == {change_queue[k].id : k \in 1..Len(change_queue)}

\* A faulty lookup: any entry with an id at or above the one asked for.
LookupLoose(q, id) == \E k \in 1..Len(q) : q[k].id >= id

\* next((c for c in change_queue if c['id'] == change_id), None) is not None
Lookup(q, id) == \E k \in 1..Len(q) : q[k].id = id

\* A faulty removal: the list is left as it is.
ProcessRemoveKeep(q, id) == q

\* [c for c in change_queue if c.get('id') != change_id]
ProcessRemove(q, id) == SelectSeq(q, LAMBDA c : c.id # id)

\* A faulty removal: the entries enqueued after the cancelled one go with it.
CancelRemoveFrom(q, id) == SelectSeq(q, LAMBDA c : c.id < id)

\* [c for c in change_queue if c['id'] != change_id]
CancelRemove(q, id) == SelectSeq(q, LAMBDA c : c.id # id)

\* A faulty loop: handlers and callbacks run while a callback is between its
\* read and its write, as if the literal path had an await there.
LoopFreeRacy == TRUE

\* The event loop thread is not inside the synchronous read-replace-write of a
\* callback: execute_find_replace has no await on its literal path, so no
\* other handler or callback of the server runs meanwhile.
LoopFree == \A id \in Ids : pc[id] \notin {"opening", "writing"}

\* A faulty counter: it is not advanced past 1.
NextChangeIdStuck(counter) == 1

\* change_id_counter += 1
NextChangeId(counter) == counter + 1

NoChange == [id |-> 0, find |-> <<>>, replace |-> <<>>, execute_at |-> 0,
             status |-> "none"]
NoArgs == [change |-> NoChange, delay_seconds |-> 0]

\* No strudel_edit_pattern call has reached its write path yet.
NoParams == [pattern_data |-> <<>>, validate_before_write |-> FALSE]
\* What a tool returned, when that is not a verdict of the validator: whether
\* it is a success and which of the tool's messages it is.
Ret(ok, stage) ==
    [ok |-> ok, stage |-> stage, fields |-> <<>>, note |-> <<>>,
     error |-> "none"]
\* No call of the strudel_mcp process has returned yet.
NoCall == [tool |-> "none", arg |-> <<>>, ret |-> Ret(TRUE, "none")]

\* The `change` argument of process_queued_change(change_id, change).
Arg(id) == taskArgs[id].change

Init ==
    /\ file = InitialText
    /\ backup = NoFile
    /\ tmp = NoFile
    /\ change_queue = <<>>
    /\ change_id_counter = 0
    /\ jobs = {}
    /\ now = 0
    /\ pc = [id \in Ids |-> "none"]
    /\ ready = <<>>
    /\ taskArgs = [id \in Ids |-> NoArgs]
    /\ readContent = [id \in Ids |-> NoFile]
    /\ result = [id \in Ids |-> "none"]
    /\ fallbackCalls = [id \in Ids |-> 0]
    /\ fdStale = FALSE
    /\ editPc = "idle"
    /\ editContent = <<>>
    /\ editCalls = 0
    /\ lastCancel = "none"
    /\ editParams = NoParams
    /\ lastCall = NoCall

\* ------------------------------------------------------------- the queue
\* schedule_change, called from POST /api/queue.  description only feeds the
\* fallback prompt, and scheduled_at is never read: both are left out of the
\* change dict here.  The run date of a job is within the seconds up to
\* MaxTime.
Enqueue(find, replace, delay_seconds) ==
    /\ LoopFree
    /\ change_id_counter < MaxChanges
    /\ delay_seconds > 0 => now + delay_seconds <= MaxTime
    /\ LET change_id == NextChangeId(change_id_counter)
           change_dict == [id |-> change_id, find |-> find,
                           replace |-> replace,
                           execute_at |-> now + delay_seconds,
                           status |-> "pending"]
       IN /\ change_id_counter' = change_id
          /\ change_queue' = Append(change_queue, change_dict)
          /\ taskArgs' = [taskArgs EXCEPT ![change_id] =
                             [change |-> change_dict,
                              delay_seconds |-> delay_seconds]]
          /\ IF delay_seconds > 0
             THEN /\ jobs' = jobs \cup {change_id}
                  /\ UNCHANGED <<pc, ready>>
             ELSE /\ jobs' = jobs
                  /\ pc' = [pc EXCEPT ![change_id] = "created"]
                  /\ ready' = Append(ready, change_id)
    /\ lastCancel' = "none"
    /\ UNCHANGED <<file, now, readContent, result, fallbackCalls, fdStale>>
    /\ UNCHANGED editVars

\* scheduler = AsyncIOScheduler() and add_job(...) give no
\* misfire_grace_time, so the scheduler's default holds: a job that the
\* scheduler gets to more than this many seconds after its run date is not
\* run.
MisfireGrace == 1

\* The scheduler submits the job of id at its run date: the job leaves the
\* job store and its coroutine becomes a task of the event loop.  The jobs
\* that are due are submitted in the order of their run dates.
JobFire(id) ==
    /\ LoopFree
    /\ id \in jobs
    /\ now >= Arg(id).execute_at
    /\ now - Arg(id).execute_at <= MisfireGrace
    /\ \A j \in jobs : Arg(j).execute_at >= Arg(id).execute_at
    /\ jobs' = jobs \ {id}
    /\ pc' = [pc EXCEPT ![id] = "created"]
    /\ ready' = Append(ready, id)
    /\ lastCancel' = "none"
    /\ UNCHANGED <<file, change_queue, change_id_counter, now, taskArgs,
                   readContent, result, fallbackCalls, fdStale>>
    /\ UNCHANGED editVars

\* The scheduler gets to the job of id later than the grace time allows: the
\* run is skipped as missed, and the job, whose date trigger has no other run
\* date, leaves the job store.  process_queued_change is not called.
JobMisfire(id) ==
    /\ LoopFree
    /\ id \in jobs
    /\ now - Arg(id).execute_at > MisfireGrace
    /\ jobs' = jobs \ {id}
    /\ lastCancel' = "none"
    /\ UNCHANGED <<file, change_queue, change_id_counter, now, pc, ready,
                   taskArgs, readContent, result, fallbackCalls, fdStale>>
    /\ UNCHANGED editVars

\* The clock goes on after the last second a request can be made in, far
\* enough for a job to be late by more than the grace time.
TickPast ==
    /\ now >= MaxTime
    /\ now < MaxTime + MisfireGrace + 1
    /\ now' = now + 1
    /\ UNCHANGED <<file, fdStale>>
    /\ UNCHANGED serverVars
    /\ lastCancel' = "none"
    /\ UNCHANGED editVars

Tick ==
    /\ now < MaxTime
    /\ now' = now + 1
    /\ UNCHANGED <<file, fdStale>>
    /\ UNCHANGED serverVars
    /\ lastCancel' = "none"
    /\ UNCHANGED editVars

\* A faulty return: a callback whose execute failed is run again, and its
\* entry stays in the pending list.
FinishRetry(id, method) ==
    /\ result' = [result EXCEPT ![id] = method]
    /\ readContent' = [readContent EXCEPT ![id] = NoFile]
    /\ change_queue' = IF method = "error" THEN change_queue
                       ELSE ProcessRemove(change_queue, id)
    /\ pc' = [pc EXCEPT ![id] = IF method = "error" THEN "created" ELSE "done"]

\* process_queued_change returns: the entry leaves the pending list, and the
\* locals of the callback are gone.
Finish(id, method) ==
    /\ result' = [result EXCEPT ![id] = method]
    /\ readContent' = [readContent EXCEPT ![id] = NoFile]
    /\ change_queue' = ProcessRemove(change_queue, id)
    /\ pc' = [pc EXCEPT ![id] = "done"]

\* The event loop runs its tasks in the order they were created: the task of
\* id takes its first step when no task created before it is still to run,
\* and is then no longer among the tasks that have not run.
TaskStarts(id) ==
    /\ pc[id] = "created"
    /\ \A k \in 1..Len(ready) : ready[k] = id => k = 1
    /\ ready' = SelectSeq(ready, LAMBDA r : r # id)

\* The callback starts: execute_find_replace reads the file and finds the text.
ExecReadHit(id) ==
    /\ LoopFree
    /\ TaskStarts(id)
    /\ FindIn(Arg(id).find, file)
    /\ readContent' = [readContent EXCEPT ![id] = file]
    /\ pc' = [pc EXCEPT ![id] = "opening"]
    /\ lastCancel' = "none"
    /\ UNCHANGED <<file, change_queue, change_id_counter, jobs, now, taskArgs,
                   result, fallbackCalls, fdStale>>
    /\ UNCHANGED editVars

\* The text is not found: the fallback agent call is dispatched and the
\* callback is suspended in `async for`.
ExecReadMiss(id) ==
    /\ LoopFree
    /\ TaskStarts(id)
    /\ ~FindIn(Arg(id).find, file)
    /\ fallbackCalls' = [fallbackCalls EXCEPT ![id] = @ + 1]
    /\ pc' = [pc EXCEPT ![id] = "fallback"]
    /\ readContent' = [readContent EXCEPT ![id] = file]
    /\ lastCancel' = "none"
    /\ UNCHANGED <<file, change_queue, change_id_counter, jobs, now, taskArgs,
                   result, fdStale>>
    /\ UNCHANGED editVars

\* The text is not found and the dispatch raises at once: claude_client is
\* None (no API key was configured at startup).  The except branch returns
\* an error result without suspending.
ExecReadMissRaise(id) ==
    /\ LoopFree
    /\ TaskStarts(id)
    /\ ~FindIn(Arg(id).find, file)
    /\ fallbackCalls' = [fallbackCalls EXCEPT ![id] = @ + 1]
    /\ Finish(id, "error")
    /\ lastCancel' = "none"
    /\ UNCHANGED <<file, change_id_counter, jobs, now, taskArgs, fdStale>>
    /\ UNCHANGED editVars

\* open(PATTERNS_FILE, 'r') raises: the except branch returns an error result.
ExecReadError(id) ==
    /\ LoopFree
    /\ TaskStarts(id)
    /\ Finish(id, "error")
    /\ lastCancel' = "none"
    /\ UNCHANGED <<file, change_id_counter, jobs, now, taskArgs,
                   fallbackCalls, fdStale>>
    /\ UNCHANGED editVars

\* open(PATTERNS_FILE, 'w') truncates the file.
ExecOpen(id) ==
    /\ pc[id] = "opening"
    /\ file' = <<>>
    /\ fdStale' = FALSE
    /\ pc' = [pc EXCEPT ![id] = "writing"]
    /\ lastCancel' = "none"
    /\ UNCHANGED <<change_queue, change_id_counter, jobs, now, ready, taskArgs,
                   readContent, result, fallbackCalls>>
    /\ UNCHANGED editVars

\* open(PATTERNS_FILE, 'w') raises (the file is not writable).
ExecOpenError(id) ==
    /\ pc[id] = "opening"
    /\ Finish(id, "error")
    /\ lastCancel' = "none"
    /\ UNCHANGED <<file, change_id_counter, jobs, now, ready, taskArgs,
                   fallbackCalls, fdStale>>
    /\ UNCHANGED editVars

\* f.write(new_content) and the close that flushes it, then the return of
\* execute_find_replace and the removal in process_queued_change (no await in
\* between).  The bytes go to the file the descriptor was opened on: when a
\* rename has replaced patterns.js since, they do not reach the new file.
ExecWrite(id) ==
    /\ pc[id] = "writing"
    /\ LET new_content == StrReplace(readContent[id], Arg(id).find,
                                     Arg(id).replace)
       IN /\ file' = IF fdStale THEN file ELSE new_content
    /\ fdStale' = FALSE
    /\ Finish(id, "find_replace")
    /\ lastCancel' = "none"
    /\ UNCHANGED <<change_id_counter, jobs, now, ready, taskArgs,
                   fallbackCalls>>
    /\ UNCHANGED editVars

\* The fallback agent call resolves: it returned, or it raised.
FallbackResolve(id, method) ==
    /\ LoopFree
    /\ pc[id] = "fallback"
    /\ Finish(id, method)
    /\ lastCancel' = "none"
    /\ UNCHANGED <<file, change_id_counter, jobs, now, ready, taskArgs,
                   fallbackCalls, fdStale>>
    /\ UNCHANGED editVars

\* cancel_change, DELETE /api/queue/{change_id}.  remove_job raises when the
\* job is not in the job store, and the exception is swallowed.
Cancel(id) ==
    /\ LoopFree
    /\ IF ~Lookup(change_queue, id)
       THEN /\ lastCancel' = "not_found"
            /\ UNCHANGED <<jobs, change_queue>>
       ELSE /\ jobs' = jobs \ {id}
            /\ change_queue' = CancelRemove(change_queue, id)
            /\ lastCancel' = "cancelled"
    /\ UNCHANGED <<file, change_id_counter, now, pc, ready, taskArgs,
                   readContent, result, fallbackCalls, fdStale>>
    /\ UNCHANGED editVars

\* ------------------------------------------------------------- the edit path
\* _write_pattern_file(content): shutil.copy2 to the backup.  patterns.js
\* exists throughout, so the copy is always made.
EditBackup(content) ==
    /\ editPc = "idle"
    /\ editCalls < MaxEdits
    /\ editCalls' = editCalls + 1
    /\ editContent' = content
    /\ backup' = file
    /\ editPc' = "backed_up"
    /\ UNCHANGED <<file, tmp, now, fdStale, editParams, lastCall>>
    /\ UNCHANGED serverVars
    /\ lastCancel' = "none"

\* The content is written to the temporary file.
EditTmpWrite ==
    /\ editPc = "backed_up"
    /\ tmp' = editContent
    /\ editPc' = "tmp_written"
    /\ UNCHANGED <<file, backup, editContent, editCalls, now,
                   fdStale, editParams, lastCall>>
    /\ UNCHANGED serverVars
    /\ lastCancel' = "none"

\* temp_file.replace(PATTERNS_FILE): the rename, after which the call returns
\* (True, message).  A descriptor a callback holds open on the old file goes
\* stale.
EditRename ==
    /\ editPc = "tmp_written"
    /\ file' = tmp
    /\ tmp' = NoFile
    /\ fdStale' = (fdStale \/ \E id \in Ids : pc[id] = "writing")
    /\ editPc' = "idle"
    /\ lastCall' = [tool |-> "strudel_edit_pattern",
                    arg |-> editParams.pattern_data,
                    ret |-> Ret(TRUE, "updated")]
    /\ UNCHANGED <<backup, editContent, editCalls, now, editParams>>
    /\ UNCHANGED serverVars
    /\ lastCancel' = "none"

\* A faulty failure: the file is left cut to nothing.
EditFailTruncating ==
    /\ editPc \in {"backed_up", "tmp_written"}
    /\ editPc' = "idle"
    /\ file' = <<>>
    /\ lastCall' = [tool |-> "strudel_edit_pattern",
                    arg |-> editParams.pattern_data,
                    ret |-> Ret(FALSE, "write_failed")]
    /\ UNCHANGED <<backup, tmp, editContent, editCalls, now, fdStale,
                   editParams>>
    /\ UNCHANGED serverVars
    /\ lastCancel' = "none"

\* Writing the temporary file or the rename raises: (False, message).
EditFail ==
    /\ editPc \in {"backed_up", "tmp_written"}
    /\ editPc' = "idle"
    /\ lastCall' = [tool |-> "strudel_edit_pattern",
                    arg |-> editParams.pattern_data,
                    ret |-> Ret(FALSE, "write_failed")]
    /\ UNCHANGED <<file, backup, tmp, editContent, editCalls, now, fdStale,
                   editParams>>
    /\ UNCHANGED serverVars
    /\ lastCancel' = "none"

\* ------------------------------------------------------------- the tools
\* The patterns and notes the calls of a run are drawn from.
BasePattern ==
    [bpm |-> 30,
     chords |-> [progression |-> << <<<<"C", "3">>, <<"E", "b", "3">>,
                                      <<"G", "3">>>> >>,
                 interval |-> <<"4", "m">>, duration |-> <<"2", "m">>,
                 filter |-> 600],
     melody |-> [notes |-> <<<<"C", "5">>, <<"~">>, <<"G", "5">>>>,
                 interval |-> <<"2", "m">>, duration |-> <<"1", "m">>,
                 waveform |-> <<"t", "r", "i", "a", "n", "g", "l", "e">>,
                 delay |-> 5]]
BaseDrums ==
    [kick |-> <<1, 0, 0, 0>>, snare |-> <<0, 0, 1, 0>>,
     interval |-> <<"4", "m">>]

\* pattern with the key drums set, and pattern with a key left out.
WithDrums(pattern, drums) ==
    [k \in DOMAIN pattern \cup {"drums"} |->
        IF k = "drums" THEN drums ELSE pattern[k]]
Without(pattern, key) == [k \in DOMAIN pattern \ {key} |-> pattern[k]]
DrumPattern == WithDrums(BasePattern, BaseDrums)

BpmTried == (15..125) \cup {-1, 0, 150}
DrumValues == {-1, 0, 1, 2}
DrumArrays == UNION {[1..n -> DrumValues] : n \in 0..MaxDrumLen}
ShortDrumArrays == {a \in DrumArrays : Len(a) <= 1}

NoteTokens ==
    {<<l>> \o a \o <<d>> :
        l \in Letters, a \in {<<>>, <<"#">>, <<"b">>}, d \in Digits}
    \cup {<<"~">>, <<>>, <<"H", "3">>, <<"C">>, <<"C", "#">>,
          <<"C", "1", "0">>, <<"c", "3">>, <<"C", "3", "\n">>, <<"~", "~">>,
          <<"C", "#", "b", "3">>, <<" ", "C", "3">>, <<"3">>, <<"X", "3">>}

Progressions ==
    {<<>>, << <<>> >>, << <<<<"C", "3">>>> >>,
     << <<<<"C", "3">>>>, <<>> >>, << <<>>, <<<<"C", "3">>>> >>,
     << <<<<"H", "3">>>> >>, << <<<<"C", "3">>, <<"E", "#", "3">>>> >>,
     << <<<<"C", "3">>>>, <<<<"C", "9">>, <<"X">>>> >>,
     << <<<<"~">>>> >>}
Melodies ==
    {<<>>, <<<<"~">>>>, <<<<"C", "5">>, <<"C", "9">>>>,
     <<<<"F", "b", "4">>, <<"H", "3">>>>, <<<<"A", "#", "0">>>>,
     <<<<"C", "5">>, <<"~">>, <<"C">>>>}

CandBpm ==
    {[g EXCEPT !.bpm = b] : g \in {BasePattern, DrumPattern}, b \in BpmTried}
CandDrums ==
    {[DrumPattern EXCEPT !.drums.kick = k] : k \in DrumArrays}
    \cup {[DrumPattern EXCEPT !.drums.snare = k] : k \in DrumArrays}
    \cup {[DrumPattern EXCEPT !.drums.kick = k, !.drums.snare = n] :
             k \in ShortDrumArrays, n \in ShortDrumArrays}
CandChords ==
    {[g EXCEPT !.chords.progression = pr] :
        g \in {BasePattern, DrumPattern}, pr \in Progressions}
CandMelody ==
    {[BasePattern EXCEPT !.melody.notes = m] : m \in Melodies}
CandFields ==
    {[BasePattern EXCEPT !.chords.filter = f] : f \in {99, 100, 2000, 2001}}
    \cup {[BasePattern EXCEPT !.melody.delay = d] : d \in {-1, 0, 10, 11}}
    \cup {[BasePattern EXCEPT !.chords.interval = <<"3", "m">>],
          [BasePattern EXCEPT !.chords.duration = <<"4", "n">>],
          [BasePattern EXCEPT !.melody.interval = <<>>],
          [BasePattern EXCEPT !.melody.duration = <<"m">>],
          [BasePattern EXCEPT !.melody.waveform = <<"s", "a", "w">>],
          [DrumPattern EXCEPT !.drums.interval = <<"1", "6", "n">>]}
CandMissing ==
    {Without(g, k) : g \in {BasePattern, DrumPattern},
                     k \in {"bpm", "chords", "melody"}}
    \cup {Without(Without(BasePattern, "chords"), "melody")}
\* Patterns that break more than one constraint.
CandMulti ==
    {[BasePattern EXCEPT !.bpm = 150, !.chords.filter = 50],
     [BasePattern EXCEPT !.bpm = 19, !.melody.notes = <<<<"H", "3">>>>],
     [Without(BasePattern, "melody") EXCEPT !.bpm = 150],
     [BasePattern EXCEPT !.chords.filter = 50,
                         !.melody.notes = <<<<"C", "9">>>>],
     [BasePattern EXCEPT !.chords.progression = << <<<<"X", "3">>>> >>,
                         !.melody.notes = <<<<"C", "9">>>>],
     [DrumPattern EXCEPT !.drums.kick = <<2>>, !.drums.snare = <<0, 3>>],
     [DrumPattern EXCEPT !.drums.kick = <<1, 2>>,
                         !.melody.notes = <<<<"C">>>>],
     [DrumPattern EXCEPT !.melody.waveform = <<>>, !.melody.delay = 11,
                         !.drums.interval = <<>>]}
Candidates ==
    CandBpm \cup CandDrums \cup CandChords \cup CandMelody \cup CandFields
    \cup CandMissing \cup CandMulti

\* strudel_validate_pattern(params): the verdict of
\* _validate_pattern_structure on params.pattern_data, as a message.
ValidatePattern(pattern_data) ==
    /\ editPc = "idle"
    /\ lastCall' = [tool |-> "strudel_validate_pattern", arg |-> pattern_data,
                    ret |-> ValidatePatternStructure(pattern_data)]
    /\ lastCancel' = "none"
    /\ UNCHANGED <<file, backup, tmp, now, fdStale, editPc, editContent,
                   editCalls, editParams>>
    /\ UNCHANGED serverVars

\* _validate_note_name(note), called on its own.
ValidateNote(note) ==
    /\ editPc = "idle"
    /\ lastCall' = [tool |-> "_validate_note_name", arg |-> note,
                    ret |-> ValidateNoteName(note)]
    /\ lastCancel' = "none"
    /\ UNCHANGED <<file, backup, tmp, now, fdStale, editPc, editContent,
                   editCalls, editParams>>
    /\ UNCHANGED serverVars

\* Patterns whose kick and snare arrays are of any two lengths.
ZeroOneArrays == UNION {[1..n -> {0, 1}] : n \in 1..MaxDrumLen}
CandUneven ==
    {[DrumPattern EXCEPT !.drums.kick = k, !.drums.snare = n] :
        k \in ZeroOneArrays, n \in ZeroOneArrays}
\* The patterns that pass validation.
ValidCandidates ==
    {p \in Candidates \cup CandUneven : ValidatePatternStructure(p).ok}
\* Those among them that differ in what the advisor reads: bpm and filter.
AdviseCandidates ==
    {p \in CandBpm \cup CandFields : ValidatePatternStructure(p).ok}

\* _analyze_pattern(pattern), called on its own.
Analyze(pattern) ==
    /\ editPc = "idle"
    /\ lastCall' = [tool |-> "_analyze_pattern", arg |-> pattern,
                    ret |-> AnalyzePattern(pattern)]
    /\ lastCancel' = "none"
    /\ UNCHANGED <<file, backup, tmp, now, fdStale, editPc, editContent,
                   editCalls, editParams>>
    /\ UNCHANGED serverVars

\* _suggest_for_mood(pattern, mood), called on its own.
Suggest(pattern, mood) ==
    /\ editPc = "idle"
    /\ lastCall' = [tool |-> "_suggest_for_mood", arg |-> pattern,
                    ret |-> SuggestForMood(pattern, mood)]
    /\ lastCancel' = "none"
    /\ UNCHANGED <<file, backup, tmp, now, fdStale, editPc, editContent,
                   editCalls, editParams>>
    /\ UNCHANGED serverVars

\* The inputs of the tools that work on the store.
EditCandidates ==
    {BasePattern, DrumPattern,
     [BasePattern EXCEPT !.bpm = 150],
     [BasePattern EXCEPT !.melody.notes = <<<<"H", "3">>>>],
     [DrumPattern EXCEPT !.drums.kick = <<1, 2>>, !.chords.filter = 50],
     Without(BasePattern, "melody")}
Descriptions == {<<"d", "a", "r", "k", "e", "r">>}
Timestamps ==
    {<<"2", "0", "2", "5", "-", "0", "1", "-", "0", "1", " ", "@", " ",
       "0", "0", ":", "0", "0", ":", "0", "0">>}

\* The records and descriptions the round trip is tried on: the patterns that
\* pass validation, one of them with a note that ends in a newline, and
\* descriptions with the characters the parser looks for.
RoundTripCandidates ==
    ValidCandidates
    \cup {p \in {[BasePattern EXCEPT !.melody.notes = <<<<"C", "3", "\n">>>>],
                 [DrumPattern EXCEPT !.bpm = 120, !.melody.delay = 10]} :
             ValidatePatternStructure(p).ok}
RoundTripDescriptions ==
    Descriptions \cup {<<"a", ":", " ", "(", "{", "'", "}", ")", ",", " ", "]">>}

\* js_content = _format_pattern_js(pattern, description), for a record given
\* from outside; the text is kept in editContent.
RenderInput(pattern, description, timestamp) ==
    /\ editPc = "idle"
    /\ lastCall = NoCall
    /\ editContent' = FormatPatternJs(pattern, description, timestamp)
    /\ lastCall' = [tool |-> "_format_pattern_js", arg |-> pattern,
                    ret |-> Ret(TRUE, "none")]
    /\ lastCancel' = "none"
    /\ UNCHANGED <<file, backup, tmp, now, fdStale, editPc, editCalls,
                   editParams>>
    /\ UNCHANGED serverVars

\* _parse_pattern(js_content) for the text rendered last; arg is the record
\* that text was rendered from.
ParseRendered ==
    /\ editPc = "idle"
    /\ lastCall.tool = "_format_pattern_js"
    /\ lastCall' = [tool |-> "_parse_pattern", arg |-> lastCall.arg,
                    ret |-> ParsePattern(editContent)]
    /\ lastCancel' = "none"
    /\ UNCHANGED <<file, backup, tmp, now, fdStale, editPc, editContent,
                   editCalls, editParams>>
    /\ UNCHANGED serverVars

\* _format_pattern_js(pattern, description) for the record parsed last.
RenderParsed(description, timestamp) ==
    /\ editPc = "idle"
    /\ lastCall.tool = "_parse_pattern"
    /\ lastCall.ret.ok
    /\ editContent' = FormatPatternJs(lastCall.ret.pattern, description,
                                      timestamp)
    /\ lastCall' = [tool |-> "_format_pattern_js",
                    arg |-> lastCall.ret.pattern, ret |-> Ret(TRUE, "none")]
    /\ lastCancel' = "none"
    /\ UNCHANGED <<file, backup, tmp, now, fdStale, editPc, editCalls,
                   editParams>>
    /\ UNCHANGED serverVars

\* current_pattern = None
NoPattern == <<>>
\* What reading the store gives a tool: the text of the pattern file, or an
\* error (the file cannot be read).
ReadOutcomes == {"pattern", "error"}

\* content = _read_pattern_file(); pattern = _parse_pattern(content): the
\* pattern, or the error raised.  Nothing comes between the parse and the use
\* of the pattern.
ReadAndParse(outcome) ==
    IF outcome = "pattern" THEN ParsePattern(file)
    ELSE [ok |-> FALSE, pattern |-> <<>>, error |-> "read"]

\* What strudel_get_pattern (with metadata) and strudel_get_pattern_info
\* return: the pattern read and _analyze_pattern of it, or the message of the
\* error.  A pattern without chords or melody makes _analyze_pattern raise
\* KeyError, one without bpm makes the formatting of the answer do so.
AnalysisOfStore(outcome) ==
    LET analysis(read) ==
            IF read.ok
               /\ {"bpm", "chords", "melody"} \subseteq DOMAIN read.pattern
            THEN [ok |-> TRUE, stage |-> "pattern", pattern |-> read.pattern,
                  metadata |-> AnalyzePattern(read.pattern)]
            ELSE Ret(FALSE, "error")
    IN analysis(ReadAndParse(outcome))

\* What strudel_suggest_modifications returns when no pattern is given: the
\* pattern read and _suggest_for_mood of it, or the message of the error.
SuggestionsOfStore(outcome, desired_mood) ==
    LET suggestions(read) ==
            IF read.ok /\ {"bpm", "chords"} \subseteq DOMAIN read.pattern
            THEN [ok |-> TRUE, stage |-> "suggestions",
                  pattern |-> read.pattern,
                  suggestions |-> SuggestForMood(read.pattern, desired_mood)]
            ELSE Ret(FALSE, "error")
    IN suggestions(ReadAndParse(outcome))

\* A faulty check: the verdict of the validator is not looked at.
RejectsNever(pattern_data, validate_before_write) == FALSE

\* strudel_edit_pattern returns the validation failure before it formats or
\* writes anything.
Rejects(pattern_data, validate_before_write) ==
    validate_before_write /\ ~ValidatePatternStructure(pattern_data).ok

\* _format_pattern_js reads these keys and raises KeyError without them.
CanFormat(pattern) == {"bpm", "chords", "melody"} \subseteq DOMAIN pattern

\* strudel_edit_pattern(params), up to the first step of _write_pattern_file:
\* the validation, the formatting and the copy to the backup.  A call that
\* fails validation, or that raises while formatting, returns its message and
\* has written nothing.
EditPattern(pattern_data, edit_description, validate_before_write, timestamp) ==
    /\ editPc = "idle"
    /\ IF Rejects(pattern_data, validate_before_write)
       THEN /\ lastCall' = [tool |-> "strudel_edit_pattern",
                            arg |-> pattern_data,
                            ret |-> ValidatePatternStructure(pattern_data)]
            /\ UNCHANGED <<backup, editPc, editContent, editCalls, editParams>>
       ELSE IF ~CanFormat(pattern_data)
       THEN /\ lastCall' = [tool |-> "strudel_edit_pattern",
                            arg |-> pattern_data,
                            ret |-> Ret(FALSE, "unexpected_error")]
            /\ UNCHANGED <<backup, editPc, editContent, editCalls, editParams>>
       ELSE /\ editCalls < MaxEdits
            /\ editCalls' = editCalls + 1
            /\ editParams' = [pattern_data |-> pattern_data,
                              validate_before_write |-> validate_before_write]
            /\ editContent' = FormatPatternJs(pattern_data, edit_description,
                                              timestamp)
            /\ backup' = file
            /\ editPc' = "backed_up"
            /\ UNCHANGED lastCall
    /\ lastCancel' = "none"
    /\ UNCHANGED <<file, tmp, now, fdStale>>
    /\ UNCHANGED serverVars

\* A faulty read: the tool saves what it read as the backup.
GetPatternSaving(outcome) ==
    /\ editPc = "idle"
    /\ lastCall' = [tool |-> "strudel_get_pattern", arg |-> NoPattern,
                    ret |-> AnalysisOfStore(outcome)]
    /\ backup' = file
    /\ lastCancel' = "none"
    /\ UNCHANGED <<file, tmp, now, fdStale, editPc, editContent,
                   editCalls, editParams>>
    /\ UNCHANGED serverVars

\* strudel_get_pattern(params): reads the store, parses and analyzes it and
\* returns the pattern as text, or the message of the error.  The text of
\* the answer is not kept, only which of the two it is.
GetPattern(outcome) ==
    /\ editPc = "idle"
    /\ lastCall' = [tool |-> "strudel_get_pattern", arg |-> NoPattern,
                    ret |-> AnalysisOfStore(outcome)]
    /\ lastCancel' = "none"
    /\ UNCHANGED <<file, backup, tmp, now, fdStale, editPc, editContent,
                   editCalls, editParams>>
    /\ UNCHANGED serverVars

\* strudel_get_pattern_info(params): reads the store, parses it and returns
\* the analysis, or the message of the error.
GetPatternInfo(outcome) ==
    /\ editPc = "idle"
    /\ lastCall' = [tool |-> "strudel_get_pattern_info", arg |-> NoPattern,
                    ret |-> AnalysisOfStore(outcome)]
    /\ lastCancel' = "none"
    /\ UNCHANGED <<file, backup, tmp, now, fdStale, editPc, editContent,
                   editCalls, editParams>>
    /\ UNCHANGED serverVars

\* strudel_suggest_modifications(params): the suggestions for the pattern
\* given, or for the pattern read from the store when none is given.  A
\* pattern without bpm or chords makes _suggest_for_mood raise KeyError.
SuggestModifications(current_pattern, desired_mood, outcome) ==
    /\ editPc = "idle"
    /\ lastCall' =
         IF current_pattern = NoPattern
         THEN [tool |-> "strudel_suggest_modifications", arg |-> NoPattern,
               ret |-> SuggestionsOfStore(outcome, desired_mood)]
         ELSE [tool |-> "strudel_suggest_modifications",
               arg |-> current_pattern,
               ret |-> IF {"bpm", "chords"} \subseteq DOMAIN current_pattern
                       THEN [ok |-> TRUE, stage |-> "suggestions",
                             suggestions |->
                                SuggestForMood(current_pattern, desired_mood)]
                       ELSE Ret(FALSE, "error")]
    /\ lastCancel' = "none"
    /\ UNCHANGED <<file, backup, tmp, now, fdStale, editPc, editContent,
                   editCalls, editParams>>
    /\ UNCHANGED serverVars

\* The server process alone.
NextQueue ==
    \/ \E q \in Requests, d \in DelaySet : Enqueue(q.find, q.replace, d)
    \/ \E id \in Ids : JobFire(id)
    \/ Tick
    \/ \E id \in Ids : ExecReadHit(id)
    \/ \E id \in Ids : ExecReadMiss(id)
    \/ \E id \in Ids : ExecReadMissRaise(id)
    \/ \E id \in Ids : ExecReadError(id)
    \/ \E id \in Ids : ExecOpen(id)
    \/ \E id \in Ids : ExecOpenError(id)
    \/ \E id \in Ids : ExecWrite(id)
    \/ \E id \in Ids, m \in {"agent_fallback", "error"} : FallbackResolve(id, m)
    \/ \E id \in Ids : Cancel(id)

\* The server process with a clock that goes on, and what fair scheduling
\* gives: the clock goes on, the event loop runs every callback that is
\* ready, the scheduler gets to every job of its store, and the fallback
\* agent call resolves.  Requests to enqueue and to cancel may or may not
\* come.
NextLive ==
    \/ NextQueue
    \/ TickPast
    \/ \E id \in Ids : JobMisfire(id)
Start(id) ==
    ExecReadHit(id) \/ ExecReadMiss(id) \/ ExecReadMissRaise(id)
        \/ ExecReadError(id)
FairScheduling ==
    /\ WF_vars(Tick \/ TickPast)
    /\ \A id \in Ids :
          /\ WF_vars(JobFire(id) \/ JobMisfire(id))
          /\ WF_vars(Start(id))
          /\ WF_vars(ExecOpen(id) \/ ExecOpenError(id))
          /\ WF_vars(ExecWrite(id))
          /\ WF_vars(\E m \in {"agent_fallback", "error"} :
                        FallbackResolve(id, m))
SpecLive == Init /\ [][NextLive]_vars /\ FairScheduling

\* The edit tool of the strudel_mcp process.
NextEdit ==
    \/ \E c \in EditTexts : EditBackup(c)
    \/ EditTmpWrite
    \/ EditRename
    \/ EditFail

Next == NextQueue \/ NextEdit

\* Both processes.
Spec == Init /\ [][Next]_vars

\* The server with no strudel_edit_pattern call during the run.
SpecQueue == Init /\ [][NextQueue]_vars

\* The validators of the strudel_mcp process, applied to the inputs above.
NextValidate ==
    \/ \E p \in Candidates : ValidatePattern(p)
    \/ \E n \in NoteTokens : ValidateNote(n)

SpecValidate == Init /\ [][NextValidate]_vars

\* The analyzer and the advisor of the strudel_mcp process, applied to the
\* patterns that pass validation.
NextAdvise ==
    \/ \E p \in ValidCandidates : Analyze(p)
    \/ \E p \in AdviseCandidates, m \in Moods : Suggest(p, m)

SpecAdvise == Init /\ [][NextAdvise]_vars

\* The renderer and the parser on their own: a record is rendered, the text
\* is parsed, and the record parsed is rendered again, any number of times.
NextRoundTrip ==
    \/ \E p \in RoundTripCandidates, d \in RoundTripDescriptions,
          ts \in Timestamps : RenderInput(p, d, ts)
    \/ ParseRendered
    \/ \E d \in RoundTripDescriptions, ts \in Timestamps : RenderParsed(d, ts)
SpecRoundTrip == Init /\ [][NextRoundTrip]_vars

\* The tools of the strudel_mcp process on the store, with no change queue.
\* A tool runs to its return before the next one starts; the steps of the
\* write path are the ones of the edit path above.
NextTools ==
    \/ \E p \in EditCandidates : ValidatePattern(p)
    \/ \E p \in EditCandidates, d \in Descriptions, v \in BOOLEAN,
          ts \in Timestamps : EditPattern(p, d, v, ts)
    \/ EditTmpWrite
    \/ EditRename
    \/ EditFail
    \/ \E o \in ReadOutcomes : GetPattern(o)
    \/ \E o \in ReadOutcomes : GetPatternInfo(o)
    \/ \E p \in EditCandidates \cup {NoPattern}, m \in Moods,
          o \in ReadOutcomes : SuggestModifications(p, m, o)

SpecTools == Init /\ [][NextTools]_vars

\* ------------------------------------------------------------- properties
\* f occurs in s, said without the scan of FindIn.
Occurs(f, s) ==
    \E i \in 1..(Len(s) + 1) : \E j \in (i - 1)..Len(s) : SubSeq(s, i, j) = f

\* The positions at which f occurs in s.
Occurrences(f, s) == {i \in 1..Len(s) : SubSeq(s, i, i + Len(f) - 1) = f}

\* No occurrence of f in s shares a character with an occurrence of g.
NoOverlap(s, f, g) ==
    \A p \in Occurrences(f, s), q \in Occurrences(g, s) :
        p + Len(f) <= q \/ q + Len(g) <= p

\* The text the callback of id is writing.
NewContent(id) == StrReplace(readContent[id], Arg(id).find, Arg(id).replace)

\* The store after the substitution of i, then that of j, on the text s.
Both(s, i, j) ==
    StrReplace(StrReplace(s, Arg(i).find, Arg(i).replace),
               Arg(j).find, Arg(j).replace)

\* C1: a reader of patterns.js never observes text that is neither the complete
\* old content nor the complete new content of a write: while a callback is
\* between its open and its close, the file holds the text the callback read,
\* the text it is writing, or the complete text of an edit.
C1_AtomicWrites ==
    \A id \in Ids :
        pc[id] = "writing" =>
            file \in ({readContent[id], NewContent(id)} \cup EditTexts)

\* C2: every step that begins an overwrite of patterns.js, by a callback or by
\* the rename of the edit write path, leaves in the backup the text the file
\* held just before that step.
C2_BackupBeforeOverwrite ==
    [][((\E id \in Ids : ExecOpen(id)) \/ EditRename) => backup' = file]_vars

\* C3: two callbacks on the same file do not lose a substitution.  When, with no
\* edit in the run, exactly two callbacks i and j have run and completed, and
\* their find texts both occur in the initial text without overlapping, then
\* neither took the fallback path, and once both substitutions are written the
\* store is the initial text with both replacements applied, in one of the
\* two orders.
C3_BothReplacementsKept ==
    \A i, j \in Ids :
        ( /\ i # j
          /\ editCalls = 0
          /\ pc[i] = "done" /\ pc[j] = "done"
          /\ \A k \in Ids \ {i, j} : pc[k] \in {"none", "created"}
          /\ Occurs(Arg(i).find, InitialText)
          /\ Occurs(Arg(j).find, InitialText)
          /\ NoOverlap(InitialText, Arg(i).find, Arg(j).find) )
        => /\ fallbackCalls[i] = 0 /\ fallbackCalls[j] = 0
           /\ (result[i] = "find_replace" /\ result[j] = "find_replace")
                => file \in {Both(InitialText, i, j), Both(InitialText, j, i)}

C3_Witness ==
    \E i, j \in Ids :
        /\ i # j
        /\ editCalls = 0
        /\ result[i] = "find_replace" /\ result[j] = "find_replace"
        /\ Arg(i).find # Arg(j).find
        /\ file = Both(InitialText, i, j)
        /\ file # Both(InitialText, j, i)

\* C4: while the fallback call of an entry is in flight the entry is in the
\* pending list.
C4_PendingWhileInFlight ==
    \A id \in Ids : pc[id] = "fallback" => id \in QueueIds

\* C5: a cancel of an entry whose fallback call is in flight changes neither
\* the pending list nor the store, and the call stays in flight.
C5_CancelInFlightNoOp ==
    [][\A id \in Ids :
         (pc[id] = "fallback" /\ Cancel(id)) =>
             /\ change_queue' = change_queue
             /\ file' = file
             /\ pc'[id] = "fallback"]_vars

\* C6: an entry removed by a cancel before its execute started never executes:
\* its job never fires and its task never starts, whatever its delay.
C6_CancelledNeverRuns ==
    [][\A id \in Ids :
         (id <= change_id_counter /\ id \notin QueueIds
            /\ pc[id] \in {"none", "created"})
         => pc'[id] = pc[id]]_vars

\* C7: once execute(id) has resolved, by whichever path, no entry with that id
\* is in the pending list.
C7_RemovedOnCompletion ==
    \A id \in Ids : pc[id] = "done" => id \notin QueueIds

C7_Witness ==
    \E id \in Ids :
        /\ pc[id] = "done" /\ result[id] = "error" /\ fallbackCalls[id] = 1
        /\ id \notin QueueIds
        /\ change_queue # <<>>

C9_ImmediateSubstitution ==
    [][\A id \in Ids :
         (taskArgs[id].delay_seconds = 0 /\ pc[id] = "writing"
            /\ pc'[id] = "done" /\ result'[id] = "find_replace")
         => /\ file' = NewContent(id)
            /\ id \notin {change_queue'[k].id : k \in 1..Len(change_queue')}]_vars

\* C10: a cancel of an id that is not in the pending list answers not found and
\* leaves the store, the pending list, the id counter, the job store and every
\* callback as they were.
C10_CancelNotFound ==
    [][\A id \in Ids :
         (Cancel(id) /\ id \notin QueueIds) =>
             /\ lastCancel' = "not_found"
             /\ UNCHANGED <<file, change_queue, change_id_counter, jobs, pc,
                            taskArgs>>]_vars

C10_Witness ==
    /\ lastCancel = "not_found"
    /\ change_queue # <<>>
    /\ jobs # {}

\* C11: a cancel of an entry that has already fired (its execute is in flight,
\* or has completed and removed the entry) is not answered as an error and
\* changes neither the pending list nor the job store.
C11_CancelAfterFireNoOp ==
    [][\A id \in Ids :
         (pc[id] \in {"fallback", "done"} /\ Cancel(id)) =>
             /\ lastCancel' # "not_found"
             /\ change_queue' = change_queue
             /\ jobs' = jobs]_vars

\* C12: ids are unique and strictly increasing: the counter never goes down,
\* the pending list holds its ids in strictly ascending order, and the entry
\* an enqueue appends carries the new value of the counter, which is greater
\* than every id assigned before, whether that entry is still pending, was
\* completed or was cancelled.
C12_IdsUniqueIncreasing ==
    [][/\ change_id_counter' >= change_id_counter
       /\ \A k, l \in 1..Len(change_queue) :
              k < l => change_queue[k].id < change_queue[l].id
       /\ Len(change_queue') > Len(change_queue) =>
              LET new == change_queue'[Len(change_queue')]
              IN /\ new.id = change_id_counter'
                 /\ \A id \in Ids : taskArgs[id] # NoArgs => new.id > id
                 /\ \A k \in 1..Len(change_queue) :
                        change_queue[k].id < new.id]_vars

C12_Witness ==
    /\ change_id_counter = 2
    /\ pc[1] = "done" /\ result[1] = "find_replace"
    /\ QueueIds = {2}
    /\ pc[2] = "none"

\* C13: when the fallback agent call of an execute raises, the result is the
\* error result, the step changes nothing in the store, and the entry is out
\* of the pending list; and a callback that has returned never runs again:
\* its position, its result and its count of fallback calls stay as they are.
C13_FallbackFailure ==
    [][\A id \in Ids :
         /\ (FallbackResolve(id, "error") \/ ExecReadMissRaise(id)) =>
                /\ result'[id] = "error"
                /\ file' = file
                /\ pc'[id] = "done"
                /\ id \notin {change_queue'[k].id : k \in 1..Len(change_queue')}
         /\ pc[id] = "done" =>
                /\ pc'[id] = "done"
                /\ result'[id] = result[id]
                /\ fallbackCalls'[id] = fallbackCalls[id]]_vars

C13_Witness ==
    \E id \in Ids :
        /\ pc[id] = "done" /\ result[id] = "error" /\ fallbackCalls[id] = 1
        /\ taskArgs[id].delay_seconds = 1
        /\ file = InitialText
        /\ change_queue = <<>>
        /\ change_id_counter = MaxChanges

\* ------------------------------------------------------------- validators
\* The last call was strudel_validate_pattern.
ValidateCalled == lastCall.tool = "strudel_validate_pattern"
\* The last call was _validate_note_name.
NoteCalled == lastCall.tool = "_validate_note_name"

\* C16: an otherwise valid pattern (the test pattern, with or without its
\* drums, with some integer as bpm) passes validation if its bpm is in
\* 20..120 and fails if it is not.
C16_BpmRange ==
    (ValidateCalled /\ "bpm" \in DOMAIN lastCall.arg /\
       \E g \in {BasePattern, DrumPattern} :
          /\ DOMAIN g = DOMAIN lastCall.arg
          /\ lastCall.arg = [g EXCEPT !.bpm = lastCall.arg.bpm])
    => (lastCall.ret.ok <=> lastCall.arg.bpm \in 20..120)

C16_Witness ==
    /\ ValidateCalled
    /\ lastCall.arg = [DrumPattern EXCEPT !.bpm = 120]
    /\ lastCall.ret.ok

\* A letter A-G, an optional # or b, an octave digit 0-8.
LetterAccidentalOctave(t) ==
    /\ Len(t) \in {2, 3}
    /\ t[1] \in {"A", "B", "C", "D", "E", "F", "G"}
    /\ Len(t) = 3 => t[2] \in {"#", "b"}
    /\ t[Len(t)] \in {"0", "1", "2", "3", "4", "5", "6", "7", "8"}

\* The seventeen note names: the seven letters, the sharps of C, D, F, G and
\* A, the flats of D, E, G, A and B.
SeventeenNames ==
    {<<l>> : l \in {"A", "B", "C", "D", "E", "F", "G"}}
    \cup {<<l, "#">> : l \in {"C", "D", "F", "G", "A"}}
    \cup {<<l, "b">> : l \in {"D", "E", "G", "A", "B"}}

\* C17 as stated: the note validator accepts every token made of a letter
\* A-G, an optional # or b and an octave digit 0-8, and the rest marker.
C17_EveryShapedNoteAccepted ==
    (NoteCalled /\ (lastCall.arg = <<"~">>
                      \/ LetterAccidentalOctave(lastCall.arg)))
    => lastCall.ret.ok

\* C17 as amended: the note validator accepts every token made of one of the
\* seventeen note names and an octave digit 0-8, and the rest marker; a token
\* of that shape with another spelling (E#, B#, Cb, Fb) is refused as a bad
\* name.
C17_NamedNotesAccepted ==
    NoteCalled =>
        LET t == lastCall.arg
            name == SubSeq(t, 1, Len(t) - 1)
        IN /\ t = <<"~">> => lastCall.ret.ok
           /\ (LetterAccidentalOctave(t) /\ name \in SeventeenNames)
                 => lastCall.ret.ok
           /\ (LetterAccidentalOctave(t) /\ name \notin SeventeenNames)
                 => lastCall.ret = [ok |-> FALSE, error |-> "name"]

C17_Witness ==
    /\ NoteCalled
    /\ lastCall.arg = <<"B", "b", "8">>
    /\ lastCall.ret.ok

\* C18: a pattern that passes validation has at least one chord and no empty
\* chord.
C18_NoEmptyChord ==
    (ValidateCalled /\ lastCall.ret.ok) =>
        LET progression == lastCall.arg.chords.progression
        IN /\ Len(progression) >= 1
           /\ \A i \in 1..Len(progression) : Len(progression[i]) >= 1

\* The checks of the validation in their fixed order: required top-level keys,
\* bpm range, section fields, drum values, note tokens.
CheckOrder ==
    <<"key bpm", "chords", "melody", "bpm", "chords.progression",
      "chords.interval", "chords.duration", "chords.filter", "melody.notes",
      "melody.interval", "melody.duration", "melody.waveform", "melody.delay",
      "drums.interval", "drums.kick", "drums.snare", "chord note",
      "melody note">>

\* pattern breaks the check c.
Breaks(pattern, c) ==
    CASE c = "key bpm" -> "bpm" \notin DOMAIN pattern
      [] c = "bpm" -> "bpm" \in DOMAIN pattern /\ pattern.bpm \notin 20..120
      [] c = "chord note" ->
            "chords" \in DOMAIN pattern
            /\ \E i \in 1..Len(pattern.chords.progression) :
                 \E k \in 1..Len(pattern.chords.progression[i]) :
                    ~ValidateNoteName(pattern.chords.progression[i][k]).ok
      [] c = "melody note" ->
            "melody" \in DOMAIN pattern
            /\ \E k \in 1..Len(pattern.melody.notes) :
                  ~ValidateNoteName(pattern.melody.notes[k]).ok
      [] OTHER -> FieldFails(pattern, c)

\* The field a failure of the check c is reported under.
FieldOfCheck(c) ==
    CASE c = "key bpm" -> "bpm"
      [] c = "chord note" -> "chords.progression"
      [] c = "melody note" -> "melody.notes"
      [] OTHER -> c

\* The first check of CheckOrder that pattern breaks.
FirstBroken(pattern) ==
    LET broken == {i \in 1..Len(CheckOrder) : Breaks(pattern, CheckOrder[i])}
    IN CheckOrder[CHOOSE i \in broken : \A j \in broken : i <= j]

\* C19: a failed validation names exactly one field, the field of the first
\* check in the fixed order that the pattern breaks.
C19_FirstFailureOnly ==
    (ValidateCalled /\ ~lastCall.ret.ok) =>
        lastCall.ret.fields = <<FieldOfCheck(FirstBroken(lastCall.arg))>>

\* Every element of a is 0 or 1.
OnlyZeroOne(a) == \A i \in 1..Len(a) : a[i] = 0 \/ a[i] = 1

\* C20: a pattern that is valid but for its kick and snare arrays fails
\* validation when one of the arrays holds a value other than 0 or 1, whatever
\* the length of the array and the place of the value, and passes when both
\* arrays are non-empty and hold only 0s and 1s.
C20_DrumValues ==
    (ValidateCalled /\ "drums" \in DOMAIN lastCall.arg /\
       lastCall.arg = [DrumPattern EXCEPT
                          !.drums.kick = lastCall.arg.drums.kick,
                          !.drums.snare = lastCall.arg.drums.snare])
    => LET kick == lastCall.arg.drums.kick
           snare == lastCall.arg.drums.snare
       IN /\ (~OnlyZeroOne(kick) \/ ~OnlyZeroOne(snare)) => ~lastCall.ret.ok
          /\ (OnlyZeroOne(kick) /\ OnlyZeroOne(snare)
                /\ Len(kick) >= 1 /\ Len(snare) >= 1) => lastCall.ret.ok

C20_Witness ==
    /\ ValidateCalled
    /\ lastCall.arg = [DrumPattern EXCEPT !.drums.snare = <<0, 1, 2>>]
    /\ lastCall.ret.ok = FALSE
    /\ lastCall.ret.fields = <<"drums.snare">>

\* ------------------------------------------------------------- edit and reads
\* C14: an edit with validate_before_write = true whose pattern fails
\* validation returns the validation failure and leaves the pattern file, the
\* backup and the temporary file as they were; and a step that changes the
\* pattern file for a call with validate_before_write = true writes the
\* formatted text of a pattern that passed validation.
C14_InvalidEditWritesNothing ==
    [][/\ \A p \in EditCandidates, d \in Descriptions, ts \in Timestamps :
            (EditPattern(p, d, TRUE, ts) /\ ~ValidatePatternStructure(p).ok)
            => /\ lastCall'.tool = "strudel_edit_pattern"
               /\ lastCall'.arg = p
               /\ lastCall'.ret.ok = FALSE
               /\ lastCall'.ret.stage \in {"schema", "chord", "melody"}
               /\ file' = file /\ backup' = backup /\ tmp' = tmp
               /\ editPc' = "idle"
       /\ (file' # file /\ editParams.validate_before_write)
            => /\ ValidatePatternStructure(editParams.pattern_data).ok
               /\ file' = editContent]_vars

C14_Witness ==
    /\ lastCall.tool = "strudel_edit_pattern"
    /\ lastCall.ret.ok = FALSE
    /\ lastCall.ret.stage = "schema"
    /\ editCalls = 1
    /\ editParams.validate_before_write
    /\ file = editContent
    /\ backup = InitialText

\* C15: a call of a read-only tool (get pattern, validate pattern, pattern
\* info, suggest modifications), whatever its input and whether it returns a
\* result or an error, leaves the pattern file, the backup and the temporary
\* file as they were.
\* A step that starts and ends with no edit under way and ends with a
\* read-only tool as the last call returned is a call of that tool: an edit
\* that returns at once leaves itself as the last call.
ReadOnlyTools ==
    {"strudel_get_pattern", "strudel_get_pattern_info",
     "strudel_suggest_modifications", "strudel_validate_pattern"}
C15_ReadOnlyTools ==
    [][(editPc = "idle" /\ editPc' = "idle"
           /\ lastCall'.tool \in ReadOnlyTools)
       => (file' = file /\ backup' = backup /\ tmp' = tmp)]_vars

C15_Witness ==
    /\ lastCall.tool = "strudel_suggest_modifications"
    /\ lastCall.ret.ok = FALSE
    /\ editCalls = 1
    /\ file = editContent
    /\ backup = InitialText

\* ------------------------------------------------------------- the queue, again
\* f occurs in s at position i.
OccursAt(f, s, i) ==
    i + Len(f) - 1 <= Len(s) /\ SubSeq(s, i, i + Len(f) - 1) = f

\* The starts of the occurrences of f in s that a scan from the left keeps:
\* an occurrence is kept unless it begins inside a kept one.
KeptStarts(s, f) ==
    LET occ == {i \in 1..Len(s) : OccursAt(f, s, i)}
    IN CHOOSE P \in SUBSET occ :
          \A i \in occ : i \in P <=> ~\E j \in P : j < i /\ i < j + Len(f)

\* s with every kept occurrence of f replaced by r.
AllReplaced(s, f, r) ==
    LET P == KeptStarts(s, f)
        piece(i) == IF i \in P THEN r
                    ELSE IF \E j \in P : j < i /\ i < j + Len(f) THEN <<>>
                    ELSE <<s[i]>>
    IN Join([i \in 1..Len(s) |-> piece(i)], <<>>)

\* C25: when the find text occurs more than once in the text an execute read,
\* the one write of its literal substitution leaves in the store that text
\* with every non-overlapping occurrence, scanning from the left, replaced.
C25_GlobalReplace ==
    [][\A id \in Ids :
         ( /\ pc[id] = "writing" /\ pc'[id] = "done"
           /\ result'[id] = "find_replace"
           /\ ~fdStale
           /\ Cardinality(KeptStarts(readContent[id], Arg(id).find)) > 1 )
         => /\ file = <<>>
            /\ file' = AllReplaced(readContent[id], Arg(id).find,
                                   Arg(id).replace)]_vars

C25_Witness ==
    \E id \in Ids :
        /\ pc[id] = "done" /\ result[id] = "find_replace"
        /\ Arg(id).find = <<"b">>
        /\ file = <<"c", "c">>

\* C28: a completion or a cancel of an entry removes exactly that entry: every
\* other entry of the pending list stays, with its fields as they were, and
\* nothing else comes in; and the pending list is always in ascending order
\* of id.
C28_RemovesExactlyOne ==
    [][/\ \A k, l \in 1..Len(change_queue') :
             k < l => change_queue'[k].id < change_queue'[l].id
       /\ \A id \in Ids :
             (Cancel(id) \/ (pc[id] # "done" /\ pc'[id] = "done"))
             => /\ \A k \in 1..Len(change_queue) :
                      change_queue[k].id # id
                      => \E l \in 1..Len(change_queue') :
                            change_queue'[l] = change_queue[k]
                /\ \A l \in 1..Len(change_queue') :
                      /\ change_queue'[l].id # id
                      /\ \E k \in 1..Len(change_queue) :
                            change_queue[k] = change_queue'[l]
                /\ Len(change_queue') =
                      Len(change_queue) - (IF id \in QueueIds THEN 1 ELSE 0)]_vars

C28_Witness ==
    /\ lastCancel = "cancelled"
    /\ change_id_counter = 2
    /\ QueueIds = {2}
    /\ pc[1] = "none"
    /\ 1 \notin jobs

\* C30: when the write path of an edit fails (the temporary file cannot be
\* written, or the rename fails), the call returns a failure as its value and
\* the pattern file holds the text it held when the call began, which is the
\* text of the backup; and a step of the strudel_mcp process changes the text
\* of the pattern file only by the rename, to the text the edit formatted.
C30_FailedWriteKeepsFile ==
    [][/\ EditFail => /\ lastCall'.tool = "strudel_edit_pattern"
                      /\ lastCall'.ret.ok = FALSE
                      /\ file' = file
                      /\ file = backup
       /\ file' # file => (EditRename /\ file' = editContent)]_vars

C30_Witness ==
    /\ lastCall.tool = "strudel_edit_pattern"
    /\ lastCall.ret.stage = "write_failed"
    /\ editCalls = 1
    /\ tmp = editContent
    /\ file = InitialText
    /\ backup = InitialText

\* ------------------------------------------------------------- analyzer, advisor
\* C23: for every pattern that passes validation and each of the five moods,
\* the list of suggestions is not empty, every bpm value proposed lies in
\* 20..120 and every filter value proposed lies in 100..2000.
C23_ProposalsInRange ==
    lastCall.tool = "_suggest_for_mood" =>
        LET changes == lastCall.ret.changes
        IN /\ lastCall.ret.mood \in
                 {"darker", "brighter", "spacious", "dense", "minimal"}
           /\ Len(changes) >= 1
           /\ \A i \in 1..Len(changes) :
                 /\ changes[i].about = "bpm" =>
                       changes[i].to >= 20 /\ changes[i].to <= 120
                 /\ changes[i].about = "filter" =>
                       changes[i].to >= 100 /\ changes[i].to <= 2000

C23_Witness ==
    /\ lastCall.tool = "_suggest_for_mood"
    /\ lastCall.arg.bpm = 25
    /\ lastCall.ret.mood = "darker"
    /\ lastCall.ret.changes[1] = [about |-> "bpm", from |-> 25, to |-> 20]

\* Two quotients are the same number.
SameQuotient(a, b) == a.num * b.den = b.num * a.den

\* C26: for every pattern with drums that passes validation, the analysis
\* gives for each drum channel its own hit count and, as its density, its own
\* hit count divided by its own step count, a number in 0..1.
C26_OwnChannelDensity ==
    (lastCall.tool = "_analyze_pattern" /\ "drums" \in DOMAIN lastCall.arg) =>
        LET kick == lastCall.arg.drums.kick
            snare == lastCall.arg.drums.snare
            hits(a) == Cardinality({i \in 1..Len(a) : a[i] = 1})
            info == lastCall.ret.drums
        IN /\ info.kick_hits = hits(kick)
           /\ info.snare_hits = hits(snare)
           /\ SameQuotient(info.kick_density, Quotient(hits(kick), Len(kick)))
           /\ SameQuotient(info.snare_density,
                           Quotient(hits(snare), Len(snare)))
           /\ info.kick_density.num <= info.kick_density.den
           /\ info.snare_density.num <= info.snare_density.den

\* ------------------------------------------------------------- round trip
\* C21: for every record r that passes validation and every description d,
\* parsing the text rendered from r and d succeeds, and the record parsed
\* passes validation and is equal to r.
C21_RoundTrip ==
    lastCall.tool = "_parse_pattern" =>
        /\ lastCall.ret.ok
        /\ ValidatePatternStructure(lastCall.ret.pattern).ok
        /\ lastCall.ret.pattern = lastCall.arg

\* The object literal of a rendered text: the text from its last "({" on.
ObjectBody(text) ==
    LET opens == {i \in 1..Len(text) : IsPrefixAt(<<"(", "{">>, text, i)}
    IN IF opens = {} THEN <<>>
       ELSE SubSeq(text, CHOOSE i \in opens : \A j \in opens : j <= i,
                   Len(text))

\* C22: after the text rendered from a validated record is parsed, there is a
\* record to render again, and its rendering has the object literal of the
\* text that was parsed, whatever the description and the timestamp.
C22_RenderAgainSameBody ==
    lastCall.tool = "_parse_pattern" =>
        /\ lastCall.ret.ok
        /\ \A d \in RoundTripDescriptions, ts \in Timestamps :
               ObjectBody(FormatPatternJs(lastCall.ret.pattern, d, ts))
                   = ObjectBody(editContent)

\* ------------------------------------------------------------- the read path
\* The read tools, when they work on the pattern read from the store.
ReadPathTools ==
    {"strudel_get_pattern", "strudel_get_pattern_info",
     "strudel_suggest_modifications"}

\* C24: a read tool that returned an analysis or suggestions for the pattern
\* of the store worked on a record that passes validation; store text that
\* parses into a record that does not is answered with an error.
C24_ReadPathValidates ==
    (lastCall.tool \in ReadPathTools /\ lastCall.arg = NoPattern
        /\ lastCall.ret.ok)
        => ValidatePatternStructure(lastCall.ret.pattern).ok

\* ------------------------------------------------------------- liveness
\* C27: under fair scheduling, with a fallback call that resolves, an entry
\* of the pending list does not stay there for ever: it is executed and
\* removed, or cancelled.
C27_EveryEntryLeaves ==
    \A id \in Ids : (id \in QueueIds) ~> (id \notin QueueIds)

\* ------------------------------------------------------------- due order
\* C29: the callback of an entry does not start before the entry's due time;
\* and while a callback is between its read and its write on the literal
\* path, no entry with a strictly later due time has made its substitution
\* yet.
C29_DueOrder ==
    \A a \in Ids :
        /\ pc[a] # "none" => now >= Arg(a).execute_at
        /\ \A b \in Ids :
              (/\ pc[a] \in {"opening", "writing"}
               /\ taskArgs[b] # NoArgs
               /\ Arg(a).execute_at < Arg(b).execute_at)
                  => result[b] # "find_replace"

====
